---- MODULE Spec2Model ----
(***************************************************************************)
(* A model of the PostgreSQL MCP server: the tool registry and its         *)
(* enablement filter (PostgreSQLServer.loadAndFilterTools), connection     *)
(* string resolution (getConnectionString), the dispatch handlers          *)
(* (ListTools / CallTool) and the execute functions of the tools, with     *)
(* every database round trip (connect, query, disconnect) a separate step; *)
(* the signal handlers and cleanup(); the comment functions of comment.ts; *)
(* and the database the statements of functions.ts are executed on.        *)
(*                                                                         *)
(* Specifications:                                                         *)
(*   SpecFilter      construction, run and ListTools over registries and   *)
(*                   tools configuration files                             *)
(*   SpecResolve     getConnectionString alone                             *)
(*   Spec, SpecFair  a running server answering CallTool requests          *)
(*   SpecWide        requests to pg_manage_functions and pg_manage_rls     *)
(*   SpecConcurrent  two CallTool invocations in flight at once            *)
(*   SpecShutdown    termination signals while requests are answered       *)
(*   SpecComment     set / remove / get of the comment of one object       *)
(*   SpecCatalog     requests one after the other against a database that  *)
(*                   executes their statements                             *)
(*   SpecIsolation   two calls in flight with different connection strings *)
(***************************************************************************)
EXTENDS Integers, Sequences, FiniteSets, Bags, TLC

VARIABLES
    options,            \* commander options: connectionString, toolsConfig
    env,                \* process.env.POSTGRES_CONNECTION_STRING
    configFile,         \* the file --tools-config points at
    phase,              \* "new" -> "constructed" -> "running"
    availableToolsList, \* PostgreSQLServer.availableToolsList (the Registry)
    enabledTools,       \* PostgreSQLServer.enabledTools
    enabledToolsMap,    \* PostgreSQLServer.enabledToolsMap (own properties)
    capabilities,       \* the tools capability handed to the SDK Server
    log,                \* what was written to console.error / console.warn
    listed,             \* the last ListTools response
    calls,              \* the CallTool requests in flight or answered
    nRequests,          \* number of CallTool requests received so far
    pools,              \* the connection cache: a bag of connection strings,
                        \* one copy per pool that exists for the string
    probe,              \* one getConnectionString evaluation (SpecResolve)
    handles,            \* the calls that hold a connection handle
    process,            \* signal handlers, shutdown steps and exit
    database            \* the comments stored in the database (SpecComment)

vars == <<options, env, configFile, phase, availableToolsList, enabledTools,
          enabledToolsMap, capabilities, log, listed, calls, nRequests, pools,
          probe, handles, process, database>>

serverVars == <<phase, availableToolsList, enabledTools, enabledToolsMap,
                capabilities>>

(***************************************************************************)
(* Bounds of the model.                                                    *)
(***************************************************************************)
MaxCalls == 1
MaxRequests == 2
MaxSignals == 2

CallIds == 1..MaxCalls

(***************************************************************************)
(* JavaScript values.  A value is a string; undefined and null are two     *)
(* distinguished values, and a value is falsy when it is undefined, null   *)
(* or the empty string.                                                    *)
(***************************************************************************)
Undefined == "<undefined>"
Null == "<null>"

Truthy(v) == v \notin {Undefined, Null, ""}

(***************************************************************************)
(* Messages are sequences of text fragments: a template literal            *)
(* `Error: ${m}` is <<"Error: ">> \o m, and a message contains a fragment  *)
(* when the fragment is one of its elements.                               *)
(***************************************************************************)
Contains(text, fragment) == \E i \in DOMAIN text : text[i] = fragment

NoConnectionStringMessage == <<"No connection string provided. Provide one in the tool arguments, via the --connection-string CLI option, or set the POSTGRES_CONNECTION_STRING environment variable.">>

(***************************************************************************)
(* getConnectionString: the explicit argument, then the CLI option, then   *)
(* the environment variable; each is taken when truthy.  Throws McpError   *)
(* when none is.                                                           *)
(***************************************************************************)
GetConnectionStringEnvFirst(connectionStringArg, opts, environment) ==
    IF Truthy(connectionStringArg)
    THEN [threw |-> FALSE, value |-> <<connectionStringArg>>]
    ELSE IF Truthy(environment)
    THEN [threw |-> FALSE, value |-> <<environment>>]
    ELSE IF Truthy(opts.connectionString)
    THEN [threw |-> FALSE, value |-> <<opts.connectionString>>]
    ELSE [threw |-> TRUE, value |-> NoConnectionStringMessage]

GetConnectionStringNoThrow(connectionStringArg, opts, environment) ==
    IF Truthy(connectionStringArg)
    THEN [threw |-> FALSE, value |-> <<connectionStringArg>>]
    ELSE IF Truthy(opts.connectionString)
    THEN [threw |-> FALSE, value |-> <<opts.connectionString>>]
    ELSE [threw |-> FALSE, value |-> <<environment>>]

GetConnectionString(connectionStringArg, opts, environment) ==
    IF Truthy(connectionStringArg)
    THEN [threw |-> FALSE, value |-> <<connectionStringArg>>]
    ELSE IF Truthy(opts.connectionString)
    THEN [threw |-> FALSE, value |-> <<opts.connectionString>>]
    ELSE IF Truthy(environment)
    THEN [threw |-> FALSE, value |-> <<environment>>]
    ELSE [threw |-> TRUE, value |-> NoConnectionStringMessage]

(***************************************************************************)
(* Tool descriptors (PostgresTool): name, description, inputSchema and     *)
(* execute.  execute names the function of the source that runs.           *)
(***************************************************************************)
analyzeDatabaseTool ==
    [name |-> "pg_analyze_database",
     description |-> "Analyze PostgreSQL database configuration and performance",
     inputSchema |-> "analyze.inputSchema",
     execute |-> "analyzeDatabaseTool.execute"]

getFunctionsTool ==
    [name |-> "pg_get_functions",
     description |-> "Get information about PostgreSQL functions",
     inputSchema |-> "getFunctions.inputSchema",
     execute |-> "getFunctionsTool.execute"]

manageFunctionsTool ==
    [name |-> "pg_manage_functions",
     description |-> "Manage PostgreSQL functions",
     inputSchema |-> "manageFunctions.inputSchema",
     execute |-> "manageFunctionsTool.execute"]

manageRLSTool ==
    [name |-> "pg_manage_rls",
     description |-> "Manage PostgreSQL Row-Level Security",
     inputSchema |-> "manageRLS.inputSchema",
     execute |-> "manageRLSTool.execute"]

\* The descriptors that wrap one operation each.
createFunctionTool ==
    [name |-> "pg_create_function",
     description |-> "Create or replace a PostgreSQL function",
     inputSchema |-> "createFunction.inputSchema",
     execute |-> "createFunctionTool.execute"]

dropFunctionTool ==
    [name |-> "pg_drop_function",
     description |-> "Drop a PostgreSQL function",
     inputSchema |-> "dropFunction.inputSchema",
     execute |-> "dropFunctionTool.execute"]

enableRLSTool ==
    [name |-> "pg_enable_rls",
     description |-> "Enable Row-Level Security on a table",
     inputSchema |-> "enableRLS.inputSchema",
     execute |-> "enableRLSTool.execute"]

disableRLSTool ==
    [name |-> "pg_disable_rls",
     description |-> "Disable Row-Level Security on a table",
     inputSchema |-> "disableRLS.inputSchema",
     execute |-> "disableRLSTool.execute"]

createRLSPolicyTool ==
    [name |-> "pg_create_rls_policy",
     description |-> "Create a Row-Level Security policy",
     inputSchema |-> "createRLSPolicy.inputSchema",
     execute |-> "createRLSPolicyTool.execute"]

dropRLSPolicyTool ==
    [name |-> "pg_drop_rls_policy",
     description |-> "Drop a Row-Level Security policy",
     inputSchema |-> "dropRLSPolicy.inputSchema",
     execute |-> "dropRLSPolicyTool.execute"]

editRLSPolicyTool ==
    [name |-> "pg_edit_rls_policy",
     description |-> "Edit an existing Row-Level Security policy",
     inputSchema |-> "editRLSPolicy.inputSchema",
     execute |-> "editRLSPolicyTool.execute"]

getRLSPoliciesTool ==
    [name |-> "pg_get_rls_policies",
     description |-> "Get Row-Level Security policies",
     inputSchema |-> "getRLSPolicies.inputSchema",
     execute |-> "getRLSPoliciesTool.execute"]

\* A descriptor imported from a module of another tool family (debug,
\* enums, migration, monitor, schema, setup, triggers).  The identifier it
\* is imported under stands for each of its properties.
ImportedTool(identifier) ==
    [name |-> identifier,
     description |-> identifier,
     inputSchema |-> identifier,
     execute |-> identifier]

\* const allTools: PostgresTool[] = [ ... ]
allTools ==
    <<analyzeDatabaseTool, getFunctionsTool, createFunctionTool,
      dropFunctionTool, enableRLSTool, disableRLSTool, createRLSPolicyTool,
      dropRLSPolicyTool, editRLSPolicyTool, getRLSPoliciesTool,
      ImportedTool("debugDatabaseTool"), ImportedTool("getEnumsTool"),
      ImportedTool("createEnumTool"), ImportedTool("exportTableDataTool"),
      ImportedTool("importTableDataTool"),
      ImportedTool("copyBetweenDatabasesTool"),
      ImportedTool("monitorDatabaseTool"), ImportedTool("getSchemaInfoTool"),
      ImportedTool("createTableTool"), ImportedTool("alterTableTool"),
      ImportedTool("getSetupInstructionsTool"), ImportedTool("getTriggersTool"),
      ImportedTool("createTriggerTool"), ImportedTool("dropTriggerTool"),
      ImportedTool("setTriggerStateTool")>>

\* A second descriptor handed to the constructor under a name that is
\* already taken: initialTools is any PostgresTool[].
shadowFunctionsTool ==
    [name |-> "pg_get_functions",
     description |-> "Manage PostgreSQL functions",
     inputSchema |-> "manageFunctions.inputSchema",
     execute |-> "manageFunctionsTool.execute"]

\* The sequences of descriptors the constructor is called with.
InitialToolsChoices ==
    { <<analyzeDatabaseTool, getFunctionsTool, manageFunctionsTool>>,
      <<manageFunctionsTool, analyzeDatabaseTool>>,
      <<getFunctionsTool, analyzeDatabaseTool, shadowFunctionsTool>>,
      << >> }

ToolNames(tools) == { tools[i].name : i \in DOMAIN tools }

(***************************************************************************)
(* The tools configuration file.  readable: fs.readFileSync returns;       *)
(* parses: JSON.parse returns; config: the parsed value, of which the code *)
(* looks at its truthiness, at Array.isArray(config.enabledTools), and at  *)
(* the type of every element.                                              *)
(***************************************************************************)
Str(s) == [isString |-> TRUE, value |-> s]
NonStr == [isString |-> FALSE, value |-> "42"]

ConfigValue(truthy, isArray, items) ==
    [truthy |-> truthy, isArray |-> isArray, items |-> items]

FileWith(config) == [readable |-> TRUE, parses |-> TRUE, config |-> config]

UnreadableFile ==
    [readable |-> FALSE, parses |-> FALSE, config |-> ConfigValue(FALSE, FALSE, << >>)]
NotJsonFile ==
    [readable |-> TRUE, parses |-> FALSE, config |-> ConfigValue(FALSE, FALSE, << >>)]

\* null / {} or {"enabledTools": "x"} / {"enabledTools": ["pg_get_functions", 42]}
MalformedFiles ==
    { UnreadableFile, NotJsonFile,
      FileWith(ConfigValue(FALSE, FALSE, << >>)),
      FileWith(ConfigValue(TRUE, FALSE, << >>)),
      FileWith(ConfigValue(TRUE, TRUE, <<Str("pg_get_functions"), NonStr>>)) }

\* { "enabledTools": [...] } with every element a string
AllowLists ==
    { << >>,
      <<"pg_manage_functions">>,
      <<"pg_get_functions">>,
      <<"pg_manage_functions", "pg_analyze_database">>,
      <<"pg_get_functions", "pg_no_such_tool">>,
      <<"pg_analyze_database", "pg_analyze_database", "pg_get_functions">> }

AllowListFile(names) ==
    FileWith(ConfigValue(TRUE, TRUE, [i \in DOMAIN names |-> Str(names[i])]))

WellFormedFiles == { AllowListFile(names) : names \in AllowLists }

\* config && Array.isArray(config.enabledTools) && config.enabledTools.every(string)
ConfigIsValid(config) ==
    /\ config.truthy
    /\ config.isArray
    /\ \A i \in DOMAIN config.items : config.items[i].isString

\* new Set(config.enabledTools)
EnabledToolNames(config) == { config.items[i].value : i \in DOMAIN config.items }

(***************************************************************************)
(* loadAndFilterTools                                                      *)
(***************************************************************************)
LogEntry(level, what, name) == [level |-> level, what |-> what, name |-> name]

FilterToolsExcluding(tools, names) ==
    SelectSeq(tools, LAMBDA tool : tool.name \notin names)

\* this.availableToolsList.filter(tool => enabledToolNames.has(tool.name))
FilterTools(tools, names) == SelectSeq(tools, LAMBDA tool : tool.name \in names)

\* toolsToEnable.reduce((acc, tool) => { acc[tool.name] = tool; ... }, {}):
\* the own properties of the resulting object; a later tool of the same
\* name overwrites an earlier one.
ReduceToMap(tools) ==
    [n \in ToolNames(tools) |->
        tools[CHOOSE i \in DOMAIN tools :
                /\ tools[i].name = n
                /\ \A j \in DOMAIN tools : tools[j].name = n => j <= i]]

ToolsToEnableNoneOnError(tools, opts, file) ==
    IF ~Truthy(opts.toolsConfig)
    THEN tools
    ELSE IF file.readable /\ file.parses /\ ConfigIsValid(file.config)
    THEN FilterTools(tools, EnabledToolNames(file.config))
    ELSE << >>

\* toolsToEnable: every available tool, unless the configuration file is
\* given, readable, parsed and of the expected shape.
ToolsToEnable(tools, opts, file) ==
    IF /\ Truthy(opts.toolsConfig)
       /\ file.readable
       /\ file.parses
       /\ ConfigIsValid(file.config)
    THEN FilterTools(tools, EnabledToolNames(file.config))
    ELSE tools

LoadLog(tools, opts, file) ==
    IF ~Truthy(opts.toolsConfig)
    THEN { LogEntry("info", "no tools configuration file provided", Undefined) }
    ELSE IF ~file.readable \/ ~file.parses
    THEN { LogEntry("warning", "could not read or parse tools configuration file", Undefined) }
    ELSE IF ~ConfigIsValid(file.config)
    THEN { LogEntry("warning", "invalid tools configuration file format", Undefined) }
    ELSE { LogEntry("info", "loaded tools configuration", Undefined) }
         \cup { LogEntry("warning", "tool specified in config file but not found", n) :
                    n \in EnabledToolNames(file.config) \ ToolNames(tools) }

\* The server object's tool fields: what loadAndFilterTools reads and writes.
This(available, enabled, map) ==
    [availableToolsList |-> available, enabledTools |-> enabled,
     enabledToolsMap |-> map]

LoadAndFilterToolsAppending(this, opts, file) ==
    LET toolsToEnable ==
            this.enabledTools \o ToolsToEnable(this.availableToolsList, opts, file)
    IN [availableToolsList |-> this.availableToolsList,
        enabledTools |-> toolsToEnable,
        enabledToolsMap |-> ReduceToMap(toolsToEnable),
        log |-> LoadLog(this.availableToolsList, opts, file)]

\* loadAndFilterTools: the fields of the server after the call, and what it
\* logged.
LoadAndFilterTools(this, opts, file) ==
    LET toolsToEnable == ToolsToEnable(this.availableToolsList, opts, file)
    IN [availableToolsList |-> this.availableToolsList,
        enabledTools |-> toolsToEnable,
        enabledToolsMap |-> ReduceToMap(toolsToEnable),
        log |-> LoadLog(this.availableToolsList, opts, file)]

\* What ListTools and the capabilities show of a descriptor.
Listing(tool) ==
    [name |-> tool.name, description |-> tool.description,
     inputSchema |-> tool.inputSchema]

ListingOf(tools) == [i \in DOMAIN tools |-> Listing(tools[i])]

(***************************************************************************)
(* CallTool requests.  args is request.params.arguments: undefined when    *)
(* the request carries none, else an object whose absent properties read   *)
(* as undefined.                                                           *)
(***************************************************************************)
Arguments(connectionString, analysisType, operation, functionName, returnType, functionBody, parameters, schema) ==
    [defined |-> TRUE,
     connectionString |-> connectionString,
     analysisType |-> analysisType,
     operation |-> operation,
     functionName |-> functionName,
     returnType |-> returnType,
     functionBody |-> functionBody,
     parameters |-> parameters,
     schema |-> schema,
     tableName |-> Undefined,
     policyName |-> Undefined,
     using |-> Undefined,
     check |-> Undefined,
     roles |-> Undefined]

\* The arguments of a pg_manage_rls request.
RLSArguments(connectionString, operation, tableName, policyName, using, check, roles, schema) ==
    [Arguments(connectionString, Undefined, operation, Undefined, Undefined,
               Undefined, Undefined, schema)
        EXCEPT !.tableName = tableName, !.policyName = policyName,
               !.using = using, !.check = check, !.roles = roles]

NoArguments ==
    [Arguments(Undefined, Undefined, Undefined, Undefined, Undefined,
               Undefined, Undefined, Undefined) EXCEPT !.defined = FALSE]

\* A FunctionResult / AnalysisResult being computed, or the error thrown.
NoResult == [kind |-> "none", message |-> << >>, details |-> << >>]

\* What tool.execute did: nothing yet, returned an envelope, or threw.
NoOutcome == [kind |-> "none", isError |-> FALSE, text |-> << >>]

\* What the CallTool handler answered.  propagated: the handler's promise
\* was rejected instead of being resolved with an envelope.
NoResponse ==
    [sent |-> FALSE, propagated |-> FALSE, isError |-> FALSE, text |-> << >>]

\* pc: "idle", then "connect" / "query" / "disconnect" while the call awaits
\* that round trip, then "done".
\* execute: the execute function that was invoked (Undefined: none was).
\* resolved: "no" before getConnectionString is called, then "ok" or "threw".
\* caught: the message of the error the handler's catch block received.
\* io: the database round trips of this call, in order.
\* afterNoConnection: the request arrived after a call had failed for lack
\* of a connection string.
IdleCall ==
    [pc |-> "idle", name |-> Undefined, args |-> NoArguments,
     execute |-> Undefined, resolved |-> "no", cs |-> Undefined,
     op |-> "none", queriesLeft |-> 0, result |-> NoResult, io |-> << >>,
     executeOutcome |-> NoOutcome, caught |-> << >>,
     response |-> NoResponse, afterNoConnection |-> FALSE]

NotListed == [valid |-> FALSE, tools |-> << >>]
NoProbe == [arg |-> Undefined, state |-> "unused", value |-> << >>]

\* handlers: the signal handler invocations, each [signal, pc] with pc in
\* "cleanupPools" / "server.close" while it awaits that call, then "exit".
\* events: what the handlers did, in order.
NoProcess == [handlers |-> << >>, events |-> << >>, exited |-> FALSE]

NoDatabase == [used |-> FALSE]

(***************************************************************************)
(* The server object: constructor, run and the ListTools handler.          *)
(***************************************************************************)
\* new PostgreSQLServer(initialTools)
Construct(initialTools) ==
    /\ phase = "new"
    /\ LET loaded == LoadAndFilterTools(This(initialTools, << >>, << >>),
                                        options, configFile)
       IN /\ availableToolsList' = loaded.availableToolsList
          /\ enabledTools' = loaded.enabledTools
          /\ enabledToolsMap' = loaded.enabledToolsMap
          /\ capabilities' = ListingOf(loaded.enabledTools)
          /\ log' = log \cup loaded.log
    /\ phase' = "constructed"
    /\ UNCHANGED <<options, env, configFile, listed, calls, nRequests, pools, probe, handles, process, database>>

\* serverInstance.run()
Run ==
    /\ phase = "constructed"
    /\ LET loaded == LoadAndFilterTools(
                         This(availableToolsList, enabledTools, enabledToolsMap),
                         options, configFile)
           warned == IF Len(availableToolsList) = 0 /\ ~Truthy(options.toolsConfig)
                     THEN { LogEntry("warning", "no tools loaded and no tools config provided", Undefined) }
                     ELSE {}
       IN /\ availableToolsList' = loaded.availableToolsList
          /\ enabledTools' = loaded.enabledTools
          /\ enabledToolsMap' = loaded.enabledToolsMap
          /\ log' = log \cup warned \cup loaded.log
    /\ phase' = "running"
    /\ UNCHANGED <<options, env, configFile, capabilities, listed, calls,
                   nRequests, pools, probe, handles, process, database>>

\* The ListToolsRequestSchema handler
ListTools ==
    /\ phase = "running"
    /\ listed' = [valid |-> TRUE, tools |-> ListingOf(enabledTools)]
    /\ UNCHANGED <<options, env, configFile, serverVars, log, calls, nRequests,
                   pools, probe, handles, process, database>>

(***************************************************************************)
(* SpecFilter: the server is constructed from any of InitialToolsChoices   *)
(* under any tools configuration, run, and asked for its tools.            *)
(***************************************************************************)
ToolsConfigChoices ==
    { <<Undefined, UnreadableFile>> }
    \cup { <<"tools.json", f>> : f \in MalformedFiles \cup WellFormedFiles }

InitFilter ==
    /\ \E c \in ToolsConfigChoices :
          /\ options = [connectionString |-> Undefined, toolsConfig |-> c[1]]
          /\ configFile = c[2]
    /\ env = Undefined
    /\ phase = "new"
    /\ availableToolsList = << >>
    /\ enabledTools = << >>
    /\ enabledToolsMap = << >>
    /\ capabilities = << >>
    /\ log = {}
    /\ listed = NotListed
    /\ calls = [c \in CallIds |-> IdleCall]
    /\ nRequests = 0
    /\ pools = EmptyBag
    /\ handles = {}
    /\ process = NoProcess
    /\ database = NoDatabase
    /\ probe = NoProbe

NextFilter ==
    \/ \E initialTools \in InitialToolsChoices : Construct(initialTools)
    \/ Run
    \/ ListTools

SpecFilter == InitFilter /\ [][NextFilter]_vars

(***************************************************************************)
(* Claims about enablement filtering (checked under SpecFilter).           *)
(***************************************************************************)
\* The enablement file has the shape { enabledTools: [string, ...] }.
WellFormedAllowList ==
    /\ Truthy(options.toolsConfig)
    /\ configFile.readable
    /\ configFile.parses
    /\ configFile.config.truthy
    /\ configFile.config.isArray
    /\ \A i \in DOMAIN configFile.config.items : configFile.config.items[i].isString

AllowedNames == { configFile.config.items[i].value : i \in DOMAIN configFile.config.items }

\* The descriptors of seq whose name is in names, in the order of seq.
RECURSIVE Keep(_, _)
Keep(seq, names) ==
    IF seq = << >> THEN << >>
    ELSE (IF Head(seq).name \in names THEN <<Head(seq)>> ELSE << >>)
         \o Keep(Tail(seq), names)

Described(tools) ==
    [i \in DOMAIN tools |->
        [name |-> tools[i].name, description |-> tools[i].description,
         inputSchema |-> tools[i].inputSchema]]

Constructed == phase \in {"constructed", "running"}

\* C5: given a well-formed allow-list, the Enabled-Tool Set is exactly the
\* Registry descriptors whose name is in the allow-list, in Registry order;
\* listTools returns exactly these descriptors in that order, so it returns
\* one descriptor when the allow-list names one registered tool; allow-list
\* names that are not registered are reported by a warning and neither stop
\* the server nor change the enabled set.
C5_EnabledIsRegistryFilteredByAllowList ==
    (Constructed /\ WellFormedAllowList) =>
        /\ enabledTools = Keep(availableToolsList, AllowedNames)
        /\ listed.valid =>
              /\ listed.tools = Described(Keep(availableToolsList, AllowedNames))
              /\ Cardinality({ i \in DOMAIN availableToolsList :
                                 availableToolsList[i].name \in AllowedNames }) = 1
                     => Len(listed.tools) = 1
        /\ \A n \in AllowedNames \ ToolNames(availableToolsList) :
              /\ \E e \in log : e.level = "warning" /\ e.name = n
              /\ enabledTools =
                     Keep(availableToolsList, AllowedNames \ {n})

C5_Witness ==
    /\ phase = "running"
    /\ WellFormedAllowList
    /\ listed.valid
    /\ Len(availableToolsList) = 3
    /\ AllowedNames = {"pg_get_functions", "pg_no_such_tool"}
    /\ Len(listed.tools) = 1
    /\ listed.tools[1].name = "pg_get_functions"
    /\ \E e \in log : e.level = "warning" /\ e.name = "pg_no_such_tool"

\* C6: with no allow-list the Enabled-Tool Set is the full Registry; with an
\* enablement file that is unreadable, not JSON or of the wrong shape, a
\* warning is emitted and all tools are enabled.
C6_AbsentOrMalformedEnablesAll ==
    Constructed =>
        /\ ~Truthy(options.toolsConfig) => enabledTools = availableToolsList
        /\ (Truthy(options.toolsConfig) /\ ~WellFormedAllowList) =>
              /\ enabledTools = availableToolsList
              /\ \E e \in log : e.level = "warning"

C6_Witness ==
    /\ phase = "running"
    /\ Truthy(options.toolsConfig)
    /\ configFile.readable /\ configFile.parses
    /\ ~WellFormedAllowList
    /\ Len(availableToolsList) = 3
    /\ enabledTools = availableToolsList
    /\ \E e \in log : e.level = "warning"

\* C7: running loadAndFilterTools again, as run() does after the constructor,
\* leaves the Enabled-Tool Set and the name-to-descriptor index as they were
\* and does not change the Registry.
C7_RefilteringIsIdempotent ==
    [][(phase = "constructed" /\ phase' = "running") =>
          /\ enabledTools' = enabledTools
          /\ enabledToolsMap' = enabledToolsMap
          /\ availableToolsList' = availableToolsList]_vars

C7_Witness ==
    /\ phase = "running"
    /\ WellFormedAllowList
    /\ Len(enabledTools) > 0
    /\ Len(enabledTools) < Len(availableToolsList)

\* C8: a sequence of descriptors in which two have the same name is rejected
\* by the constructor, and the index used by dispatch never maps a name to a
\* descriptor registered after another one of that name.
C8_DuplicateNamesRejected ==
    Constructed =>
        /\ \A i, j \in DOMAIN availableToolsList :
              availableToolsList[i].name = availableToolsList[j].name => i = j
        /\ \A n \in DOMAIN enabledToolsMap :
              \A i \in DOMAIN availableToolsList :
                 (availableToolsList[i].name = n /\
                  \A j \in 1..(i - 1) : availableToolsList[j].name # n)
                     => enabledToolsMap[n] = availableToolsList[i]

(***************************************************************************)
(* SpecResolve: getConnectionString applied to every combination of an     *)
(* absent, empty, blank or given explicit argument, CLI option and         *)
(* environment variable.                                                   *)
(***************************************************************************)
ArgValues == {Undefined, Null, "", " ", "postgresql://arg/db"}
CliValues == {Undefined, "", " ", "postgresql://cli/db"}
EnvValues == {Undefined, "", " ", "postgresql://env/db"}

InitResolve ==
    /\ options \in [connectionString : CliValues, toolsConfig : {Undefined}]
    /\ env \in EnvValues
    /\ probe \in [arg : ArgValues, state : {"pending"}, value : {<< >>}]
    /\ configFile = UnreadableFile
    /\ phase = "new"
    /\ availableToolsList = << >>
    /\ enabledTools = << >>
    /\ enabledToolsMap = << >>
    /\ capabilities = << >>
    /\ log = {}
    /\ listed = NotListed
    /\ calls = [c \in CallIds |-> IdleCall]
    /\ nRequests = 0
    /\ pools = EmptyBag
    /\ handles = {}
    /\ process = NoProcess
    /\ database = NoDatabase

\* One evaluation of getConnectionString(probe.arg)
Resolve ==
    /\ probe.state = "pending"
    /\ LET r == GetConnectionString(probe.arg, options, env)
       IN probe' = [probe EXCEPT
                       !.state = IF r.threw THEN "thrown" ELSE "returned",
                       !.value = r.value]
    /\ UNCHANGED <<options, env, configFile, serverVars, log, listed, calls,
                   nRequests, pools, handles, process, database>>

NextResolve == Resolve

SpecResolve == InitResolve /\ [][NextResolve]_vars

\* C9: connection-string resolution returns the first non-empty value in the
\* order explicit argument, CLI default, environment variable, for every
\* combination of present, absent and empty values, and fails only when all
\* three are absent or empty.
C9_FirstNonEmptyWins ==
    probe.state \in {"returned", "thrown"} =>
        LET candidates == <<probe.arg, options.connectionString, env>>
            nonEmpty == { i \in 1..3 : candidates[i] \notin {Undefined, Null, ""} }
        IN IF nonEmpty = {}
           THEN probe.state = "thrown"
           ELSE /\ probe.state = "returned"
                /\ \E i \in nonEmpty :
                      /\ \A j \in nonEmpty : i <= j
                      /\ probe.value = <<candidates[i]>>

C9_Witness ==
    /\ probe.state = "returned"
    /\ probe.arg = ""
    /\ options.connectionString = "postgresql://cli/db"
    /\ env = "postgresql://env/db"
    /\ probe.value = <<"postgresql://cli/db">>

(***************************************************************************)
(* The execute functions, up to their first await.  Each yields one of     *)
(*   kind = "return": an envelope returned without touching the database,  *)
(*   kind = "throw":  an exception thrown out of execute,                  *)
(*   kind = "await":  the call is suspended in db.connect(cs) of op.       *)
(***************************************************************************)
Returns(isError, text, resolved) ==
    [kind |-> "return", isError |-> isError, text |-> text,
     resolved |-> resolved, op |-> "none", cs |-> Undefined, queries |-> 0]

Throws(message, resolved) ==
    [kind |-> "throw", isError |-> FALSE, text |-> message,
     resolved |-> resolved, op |-> "none", cs |-> Undefined, queries |-> 0]

Awaits(op, cs, queries) ==
    [kind |-> "await", isError |-> FALSE, text |-> << >>,
     resolved |-> "ok", op |-> op, cs |-> cs, queries |-> queries]

\* const { connectionString, ... } = args, with args undefined
DestructureError ==
    <<"Cannot destructure property 'connectionString' of 'args' as it is undefined.">>

AnalysisTypes == {"configuration", "performance", "security"}

\* getVersion, getSettings, the five queries of getMetrics, and for
\* 'security' the two queries of generateRecommendations
AnalyzeQueries(analysisType) ==
    1 + 1 + 5 + (IF analysisType = "security" THEN 2 ELSE 0)

AnalyzeDatabaseExecute(args, opts, environment) ==
    IF ~args.defined THEN Throws(DestructureError, "no")
    ELSE IF ~Truthy(args.analysisType) \/ args.analysisType \notin AnalysisTypes
    THEN Returns(TRUE, <<"Error: analysisType is required and must be one of ['configuration', 'performance', 'security'].">>, "no")
    ELSE LET r == GetConnectionString(args.connectionString, opts, environment)
         IN IF r.threw THEN Throws(r.value, "threw")
            ELSE Awaits("analyzeDatabase", r.value[1], AnalyzeQueries(args.analysisType))

GetFunctionsExecute(args, opts, environment) ==
    IF ~args.defined THEN Throws(DestructureError, "no")
    ELSE LET r == GetConnectionString(args.connectionString, opts, environment)
         IN IF r.threw THEN Throws(r.value, "threw")
            ELSE Awaits("_getFunctions", r.value[1], 1)

\* missingFields of the create branch
MissingFields(args) ==
    SelectSeq(<<"functionName", "returnType", "functionBody">>,
              LAMBDA f : ~Truthy(args[f]))

\* missingFields.join(', ')
RECURSIVE Join(_)
Join(fields) ==
    IF Len(fields) <= 1 THEN fields
    ELSE <<Head(fields), ", ">> \o Join(Tail(fields))

ManageFunctionsExecute(args, opts, environment) ==
    IF ~args.defined THEN Throws(DestructureError, "no")
    ELSE LET r == GetConnectionString(args.connectionString, opts, environment)
         IN IF r.threw THEN Throws(r.value, "threw")
            ELSE CASE args.operation = "get" ->
                        Awaits("_getFunctions", r.value[1], 1)
                   [] args.operation = "create" ->
                        IF Len(MissingFields(args)) > 0
                        THEN Returns(TRUE,
                                 <<"Error: Missing required fields: ">>
                                 \o Join(MissingFields(args))
                                 \o <<". Note: parameters can be empty string \"\" for functions with no parameters">>,
                                 "ok")
                        ELSE Awaits("_createFunction", r.value[1], 1)
                   [] args.operation = "drop" ->
                        IF ~Truthy(args.functionName)
                        THEN Returns(TRUE, <<"Error: ", "functionName", " is required for drop operation">>, "ok")
                        ELSE Awaits("_dropFunction", r.value[1], 1)
                   [] OTHER ->
                        Returns(TRUE,
                            <<"Error: Unknown operation \"", args.operation,
                              "\". Supported operations: ", "get", ", ", "create", ", ", "drop">>,
                            "ok")

\* The operations each wide tool's switch has a case for.
FunctionsOperations == <<"get", "create", "drop">>
RLSOperations ==
    <<"enable", "disable", "create_policy", "edit_policy", "drop_policy",
      "get_policies">>

\* _editRLSPolicy sends its statement only when alterClauses is not empty.
EditPolicyQueriesAlways(args) == 1

EditPolicyQueries(args) ==
    IF args.roles = Undefined /\ args.using = Undefined /\ args.check = Undefined
    THEN 0 ELSE 1

\* An execute that checks the operation and the fields of its branch before
\* it resolves the connection string.
ManageRLSExecuteValidatingFirst(args, opts, environment) ==
    LET required ==
            CASE args.operation \in {"enable", "disable"} -> {"tableName"}
              [] args.operation = "create_policy" -> {"tableName", "policyName", "using"}
              [] args.operation \in {"edit_policy", "drop_policy"} -> {"tableName", "policyName"}
              [] OTHER -> {}
        operation ==
            CASE args.operation = "enable" -> "_enableRLS"
              [] args.operation = "disable" -> "_disableRLS"
              [] args.operation = "create_policy" -> "_createRLSPolicy"
              [] args.operation = "edit_policy" -> "_editRLSPolicy"
              [] args.operation = "drop_policy" -> "_dropRLSPolicy"
              [] OTHER -> "_getRLSPolicies"
    IN IF ~args.defined THEN Throws(DestructureError, "no")
       ELSE IF args.operation \notin {RLSOperations[i] : i \in DOMAIN RLSOperations}
       THEN Returns(TRUE, <<"Error: Unknown operation \"", args.operation, "\"">>, "no")
       ELSE IF \E f \in required : ~Truthy(args[f])
       THEN Returns(TRUE, <<"Error: required fields are missing">>, "no")
       ELSE LET r == GetConnectionString(args.connectionString, opts, environment)
            IN IF r.threw THEN Throws(r.value, "threw")
               ELSE Awaits(operation, r.value[1],
                           IF operation = "_editRLSPolicy"
                           THEN EditPolicyQueries(args) ELSE 1)

ManageRLSExecute(args, opts, environment) ==
    IF ~args.defined THEN Throws(DestructureError, "no")
    ELSE LET r == GetConnectionString(args.connectionString, opts, environment)
         IN IF r.threw THEN Throws(r.value, "threw")
            ELSE CASE args.operation = "enable" ->
                        IF ~Truthy(args.tableName)
                        THEN Returns(TRUE, <<"Error: ", "tableName", " is required for enable operation">>, "ok")
                        ELSE Awaits("_enableRLS", r.value[1], 1)
                   [] args.operation = "disable" ->
                        IF ~Truthy(args.tableName)
                        THEN Returns(TRUE, <<"Error: ", "tableName", " is required for disable operation">>, "ok")
                        ELSE Awaits("_disableRLS", r.value[1], 1)
                   [] args.operation = "create_policy" ->
                        IF ~Truthy(args.tableName) \/ ~Truthy(args.policyName)
                           \/ ~Truthy(args.using)
                        THEN Returns(TRUE,
                                 <<"Error: ", "tableName", ", ", "policyName", ", and ", "using",
                                   " are required for create_policy operation">>, "ok")
                        ELSE Awaits("_createRLSPolicy", r.value[1], 1)
                   [] args.operation = "edit_policy" ->
                        IF ~Truthy(args.tableName) \/ ~Truthy(args.policyName)
                        THEN Returns(TRUE,
                                 <<"Error: ", "tableName", " and ", "policyName",
                                   " are required for edit_policy operation">>, "ok")
                        ELSE Awaits("_editRLSPolicy", r.value[1], EditPolicyQueries(args))
                   [] args.operation = "drop_policy" ->
                        IF ~Truthy(args.tableName) \/ ~Truthy(args.policyName)
                        THEN Returns(TRUE,
                                 <<"Error: ", "tableName", " and ", "policyName",
                                   " are required for drop_policy operation">>, "ok")
                        ELSE Awaits("_dropRLSPolicy", r.value[1], 1)
                   [] args.operation = "get_policies" ->
                        Awaits("_getRLSPolicies", r.value[1], 1)
                   [] OTHER ->
                        Returns(TRUE,
                            <<"Error: Unknown operation \"", args.operation,
                              "\". Supported operations: ", "enable", ", ", "disable", ", ",
                              "create_policy", ", ", "edit_policy", ", ", "drop_policy", ", ",
                              "get_policies">>,
                            "ok")

\* The operation each single-operation descriptor calls.
NarrowOperation ==
    [e \in {"createFunctionTool.execute", "dropFunctionTool.execute",
             "enableRLSTool.execute", "disableRLSTool.execute",
             "createRLSPolicyTool.execute", "dropRLSPolicyTool.execute",
             "editRLSPolicyTool.execute", "getRLSPoliciesTool.execute"} |->
        CASE e = "createFunctionTool.execute" -> "_createFunction"
          [] e = "dropFunctionTool.execute" -> "_dropFunction"
          [] e = "enableRLSTool.execute" -> "_enableRLS"
          [] e = "disableRLSTool.execute" -> "_disableRLS"
          [] e = "createRLSPolicyTool.execute" -> "_createRLSPolicy"
          [] e = "dropRLSPolicyTool.execute" -> "_dropRLSPolicy"
          [] e = "editRLSPolicyTool.execute" -> "_editRLSPolicy"
          [] e = "getRLSPoliciesTool.execute" -> "_getRLSPolicies"]

\* execute of a single-operation descriptor: no check of its own.
NarrowExecute(op, args, opts, environment) ==
    IF ~args.defined THEN Throws(DestructureError, "no")
    ELSE LET r == GetConnectionString(args.connectionString, opts, environment)
         IN IF r.threw THEN Throws(r.value, "threw")
            ELSE Awaits(op, r.value[1],
                        IF op = "_editRLSPolicy" THEN EditPolicyQueries(args) ELSE 1)

ExecuteStart(execute, args, opts, environment) ==
    CASE execute = "manageRLSTool.execute" ->
            ManageRLSExecute(args, opts, environment)
      [] execute \in DOMAIN NarrowOperation ->
            NarrowExecute(NarrowOperation[execute], args, opts, environment)
      [] execute = "analyzeDatabaseTool.execute" ->
            AnalyzeDatabaseExecute(args, opts, environment)
      [] execute = "getFunctionsTool.execute" ->
            GetFunctionsExecute(args, opts, environment)
      [] execute = "manageFunctionsTool.execute" ->
            ManageFunctionsExecute(args, opts, environment)

(***************************************************************************)
(* The results of the database operations.                                 *)
(***************************************************************************)
Default(v, d) == IF Truthy(v) THEN v ELSE d

\* A default parameter (schema = 'public'): taken only for undefined.
DefaultParameter(v, d) == IF v = Undefined THEN d ELSE v

Success(message, details) ==
    [kind |-> "success", message |-> message, details |-> details]
Failure(message) ==
    [kind |-> "failure", message |-> message, details |-> << >>]
Thrown(message) ==
    [kind |-> "throw", message |-> message, details |-> << >>]

\* The value each operation returns when its statements succeeded.
ResultOnSuccess(op, args) ==
    CASE op = "_getFunctions" ->
            Success(IF Truthy(args.functionName)
                    THEN <<"Function information for ", args.functionName>>
                    ELSE <<"Found ", "functions.length", " functions in schema ",
                           DefaultParameter(args.schema, "public")>>,
                    <<"[functions of schema ", DefaultParameter(args.schema, "public"), "]">>)
      [] op = "_createFunction" ->
            Success(<<"Function ", args.functionName, " created successfully">>,
                    <<"{name: ", args.functionName,
                      ", schema: ", Default(args.schema, "public"),
                      ", returnType: ", args.returnType,
                      ", language: ", "plpgsql",
                      ", volatility: ", "VOLATILE",
                      ", security: ", "INVOKER", "}">>)
      [] op = "_dropFunction" ->
            Success(<<"Function ", args.functionName, " dropped successfully">>,
                    <<"{name: ", args.functionName,
                      ", schema: ", Default(args.schema, "public"), "}">>)
      [] op = "analyzeDatabase" ->
            Success(<< >>, <<"{version, settings, metrics, recommendations}">>)
      [] op = "_enableRLS" ->
            Success(<<"Row-Level Security enabled on ",
                      DefaultParameter(args.schema, "public"), ".", args.tableName>>,
                    <<"{table: ", args.tableName,
                      ", schema: ", DefaultParameter(args.schema, "public"), "}">>)
      [] op = "_disableRLS" ->
            Success(<<"Row-Level Security disabled on ",
                      DefaultParameter(args.schema, "public"), ".", args.tableName>>,
                    <<"{table: ", args.tableName,
                      ", schema: ", DefaultParameter(args.schema, "public"), "}">>)
      [] op = "_createRLSPolicy" ->
            Success(<<"Policy ", args.policyName, " created successfully on ",
                      Default(args.schema, "public"), ".", args.tableName>>,
                    <<"{table: ", args.tableName,
                      ", schema: ", Default(args.schema, "public"),
                      ", policy: ", args.policyName, ", command: ", "ALL", "}">>)
      [] op = "_dropRLSPolicy" ->
            Success(<<"Policy ", args.policyName, " dropped successfully from ",
                      Default(args.schema, "public"), ".", args.tableName>>,
                    <<"{table: ", args.tableName,
                      ", schema: ", Default(args.schema, "public"),
                      ", policy: ", args.policyName, "}">>)
      [] op = "_editRLSPolicy" ->
            IF EditPolicyQueries(args) = 0
            THEN Failure(<<"No changes specified for the policy.">>)
            ELSE Success(<<"Policy ", args.policyName, " on ",
                           Default(args.schema, "public"), ".", args.tableName,
                           " updated successfully.">>,
                         <<"{table: ", args.tableName,
                           ", schema: ", Default(args.schema, "public"),
                           ", policy: ", args.policyName, ", changes: ", "options", "}">>)
      [] op = "_getRLSPolicies" ->
            Success(IF Truthy(args.tableName)
                    THEN <<"Policies for table ", DefaultParameter(args.schema, "public"),
                           ".", args.tableName>>
                    ELSE <<"All policies in schema ", DefaultParameter(args.schema, "public")>>,
                    <<"[policies of schema ", DefaultParameter(args.schema, "public"), "]">>)

\* The value each operation returns, or the error it throws, when connect
\* or a query failed with the given message.
ResultOnErrorWithoutCause(op, message) ==
    IF op = "analyzeDatabase" THEN Thrown(message)
    ELSE Failure(<<"The operation failed">>)

ResultOnError(op, message) ==
    CASE op = "_getFunctions" ->
            Failure(<<"Failed to get function information: ">> \o message)
      [] op = "_createFunction" ->
            Failure(<<"Failed to create function: ">> \o message)
      [] op = "_dropFunction" ->
            Failure(<<"Failed to drop function: ">> \o message)
      [] op = "analyzeDatabase" -> Thrown(message)
      [] op = "_enableRLS" -> Failure(<<"Failed to enable RLS: ">> \o message)
      [] op = "_disableRLS" -> Failure(<<"Failed to disable RLS: ">> \o message)
      [] op = "_createRLSPolicy" -> Failure(<<"Failed to create policy: ">> \o message)
      [] op = "_dropRLSPolicy" -> Failure(<<"Failed to drop policy: ">> \o message)
      [] op = "_editRLSPolicy" -> Failure(<<"Failed to edit policy: ">> \o message)
      [] op = "_getRLSPolicies" -> Failure(<<"Failed to get policies: ">> \o message)

\* What execute does with the operation's result.
ExecuteFinishMessageOnly(execute, op, result) ==
    CASE result.kind = "throw" -> Throws(result.message, "ok")
      [] result.kind = "failure" -> Returns(TRUE, result.message, "ok")
      [] OTHER -> Returns(FALSE, result.message, "ok")

ExecuteFinish(execute, op, result) ==
    CASE result.kind = "throw" -> Throws(result.message, "ok")
      [] result.kind = "failure" -> Returns(TRUE, result.message, "ok")
      [] result.kind = "success"
         /\ op \in {"_getFunctions", "_getRLSPolicies", "analyzeDatabase"} ->
            Returns(FALSE, result.details, "ok")
      [] OTHER ->
            Returns(FALSE, result.message \o <<" Details: ">> \o result.details, "ok")

(***************************************************************************)
(* The CallToolRequestSchema handler.                                      *)
(***************************************************************************)
\* enabledToolsMap is a plain object ({} as Record<string, PostgresTool>):
\* a key that is no own property is looked up on Object.prototype.
ObjectPrototypeKeys == {"constructor", "toString", "__proto__"}

\* An inherited property read through the map: truthy, with no execute.
InheritedProperty ==
    [name |-> Undefined, description |-> Undefined, inputSchema |-> Undefined,
     execute |-> Undefined]

\* this.enabledToolsMap[toolName]
MapLookup(map, toolName) ==
    IF toolName \in DOMAIN map
    THEN [truthy |-> TRUE, tool |-> map[toolName]]
    ELSE IF toolName \in ObjectPrototypeKeys
    THEN [truthy |-> TRUE, tool |-> InheritedProperty]
    ELSE [truthy |-> FALSE, tool |-> InheritedProperty]

NotEnabledMessage(toolName) ==
    <<"Tool \"", toolName, "\" is available but not enabled by the current server configuration.">>
NotExistMessage(toolName) ==
    <<"Tool '", toolName, "' is not enabled or does not exist.">>
NotAFunctionMessage == <<"tool.execute is not a function">>

\* The message of the McpError thrown when the lookup finds nothing.
LookupErrorAlwaysNotExist(available, toolName) == NotExistMessage(toolName)

LookupError(available, toolName) ==
    IF \E i \in DOMAIN available : available[i].name = toolName
    THEN NotEnabledMessage(toolName)
    ELSE NotExistMessage(toolName)

\* return result
Forward(outcome) ==
    [sent |-> TRUE, propagated |-> FALSE, isError |-> outcome.isError,
     text |-> outcome.text]

\* catch (error) { ... return { content: [`Error: ${errorMessage}`], isError: true } }
CatchRethrows(message) ==
    [sent |-> TRUE, propagated |-> TRUE, isError |-> FALSE, text |-> << >>]

Catch(message) ==
    [sent |-> TRUE, propagated |-> FALSE, isError |-> TRUE,
     text |-> <<"Error: ">> \o message]

\* The call once execute has returned an envelope or thrown.
Settled(call, outcome) ==
    [call EXCEPT
        !.pc = "done",
        !.executeOutcome =
            [kind |-> IF outcome.kind = "throw" THEN "threw" ELSE "returned",
             isError |-> outcome.isError, text |-> outcome.text],
        !.caught = IF outcome.kind = "throw" THEN outcome.text ELSE << >>,
        !.response = IF outcome.kind = "throw"
                     THEN Catch(outcome.text) ELSE Forward(outcome)]

\* The call once the handler itself has thrown, before or instead of execute.
Rejected(call, message) ==
    [call EXCEPT !.pc = "done", !.caught = message, !.response = Catch(message)]

\* Some earlier call failed because no connection string could be resolved.
NoConnectionSeen ==
    \E d \in DOMAIN calls :
        \/ calls[d].pc = "done" /\ calls[d].resolved = "threw"
        \/ calls[d].afterNoConnection

\* A CallTool handler that takes the tool it looked up out of enabledTools.
CallToolConsuming(c, toolName, args) ==
    /\ phase = "running"
    /\ ~process.exited
    /\ calls[c].pc \in {"idle", "done"}
    /\ nRequests < MaxRequests
    /\ nRequests' = nRequests + 1
    /\ LET fresh == [IdleCall EXCEPT !.name = toolName, !.args = args,
                                     !.afterNoConnection = NoConnectionSeen]
           found == MapLookup(enabledToolsMap, toolName)
       IN IF ~found.truthy
          THEN calls' = [calls EXCEPT ![c] =
                    Rejected(fresh, LookupError(availableToolsList, toolName))]
          ELSE IF found.tool.execute = Undefined
          THEN calls' = [calls EXCEPT ![c] = Rejected(fresh, NotAFunctionMessage)]
          ELSE LET started == ExecuteStart(found.tool.execute, args, options, env)
                   running == [fresh EXCEPT !.execute = found.tool.execute,
                                            !.resolved = started.resolved]
               IN IF started.kind = "await"
                  THEN calls' = [calls EXCEPT ![c] =
                            [running EXCEPT !.pc = "connect",
                                            !.op = started.op,
                                            !.cs = started.cs,
                                            !.queriesLeft = started.queries]]
                  ELSE calls' = [calls EXCEPT ![c] = Settled(running, started)]
    /\ enabledTools' = SelectSeq(enabledTools, LAMBDA t : t.name # toolName)
    /\ UNCHANGED <<options, env, configFile, phase, availableToolsList,
                   enabledToolsMap, capabilities, log, listed, pools, probe,
                   handles, process, database>>

\* A CallTool request arrives: the handler runs up to its first await.
CallTool(c, toolName, args) ==
    /\ phase = "running"
    /\ ~process.exited
    /\ calls[c].pc \in {"idle", "done"}
    /\ nRequests < MaxRequests
    /\ nRequests' = nRequests + 1
    /\ LET fresh == [IdleCall EXCEPT !.name = toolName, !.args = args,
                                     !.afterNoConnection = NoConnectionSeen]
           found == MapLookup(enabledToolsMap, toolName)
       IN IF ~found.truthy
          THEN calls' = [calls EXCEPT ![c] =
                    Rejected(fresh, LookupError(availableToolsList, toolName))]
          ELSE IF found.tool.execute = Undefined
          THEN calls' = [calls EXCEPT ![c] = Rejected(fresh, NotAFunctionMessage)]
          ELSE LET started == ExecuteStart(found.tool.execute, args, options, env)
                   running == [fresh EXCEPT !.execute = found.tool.execute,
                                            !.resolved = started.resolved]
               IN IF started.kind = "await"
                  THEN calls' = [calls EXCEPT ![c] =
                            [running EXCEPT !.pc = "connect",
                                            !.op = started.op,
                                            !.cs = started.cs,
                                            !.queriesLeft = started.queries]]
                  ELSE calls' = [calls EXCEPT ![c] = Settled(running, started)]
    /\ UNCHANGED <<options, env, configFile, serverVars, log, listed, pools, probe, handles, process, database>>

(***************************************************************************)
(* The database round trips of a call.  Each is a suspension point; the    *)
(* code between two of them runs without interruption.                     *)
(***************************************************************************)
ConnectError == <<"connect ECONNREFUSED">>
QueryError == <<"the database rejected the statement">>
NotConnectedError == <<"Not connected to database">>

\* The connection cache after a handle was acquired for connectionString:
\* a pool is created for a string that has none and reused otherwise.
PoolsAfterConnectAlwaysCreates(cache, connectionString) ==
    cache (+) SetToBag({connectionString})

PoolsAfterConnect(cache, connectionString) ==
    IF BagIn(connectionString, cache) THEN cache
    ELSE cache (+) SetToBag({connectionString})

\* The handles that are held after call c acquired one, and after call c
\* released its own: the pool stays and so do the handles of other calls.
HandlesAfterConnect(held, c) == held \cup {c}
HandlesAfterDisconnect(held, c) == held \ {c}

\* DatabaseConnection.cleanupPools(): every pool is closed and removed.
PoolsAfterCleanup(cache) == EmptyBag

\* The error a query is rejected with.
QueryFailure(held, c) == IF c \in held THEN QueryError ELSE NotConnectedError

\* await db.connect(connectionString) resolves into one call only.
ConnectSucceedsSharedClient(c) ==
    /\ ~process.exited
    /\ calls[c].pc = "connect"
    /\ pools' = PoolsAfterConnect(pools, calls[c].cs)
    /\ handles' = {c}
    /\ calls' = [calls EXCEPT ![c] =
            [@ EXCEPT !.pc = "query", !.io = Append(@, "connect")]]
    /\ UNCHANGED <<options, env, configFile, serverVars, log, listed, nRequests, probe, process, database>>

\* await db.connect(connectionString) resolves.  The operation goes on to
\* its first query, or, when it has none to send, returns and enters finally.
ConnectSucceeds(c) ==
    /\ ~process.exited
    /\ calls[c].pc = "connect"
    /\ pools' = PoolsAfterConnect(pools, calls[c].cs)
    /\ handles' = HandlesAfterConnect(handles, c)
    /\ calls' = [calls EXCEPT ![c] =
            IF calls[c].queriesLeft = 0
            THEN [@ EXCEPT !.pc = "disconnect",
                           !.io = Append(@, "connect"),
                           !.result = ResultOnSuccess(calls[c].op, calls[c].args)]
            ELSE [@ EXCEPT !.pc = "query", !.io = Append(@, "connect")]]
    /\ UNCHANGED <<options, env, configFile, serverVars, log, listed, nRequests, probe, process, database>>

\* await db.connect(connectionString) rejects.  analyzeDatabase connects
\* outside its try block: the error leaves execute at once.  The functions
\* operations catch it and go on to finally { await db.disconnect() }.
ConnectFails(c) ==
    /\ ~process.exited
    /\ calls[c].pc = "connect"
    /\ LET call == [calls[c] EXCEPT !.io = Append(@, "connect failed")]
           result == ResultOnError(call.op, ConnectError)
       IN calls' = [calls EXCEPT ![c] =
            IF call.op = "analyzeDatabase"
            THEN Settled([call EXCEPT !.result = result],
                         ExecuteFinish(call.execute, call.op, result))
            ELSE [call EXCEPT !.pc = "disconnect", !.result = result]]
    /\ UNCHANGED <<options, env, configFile, serverVars, log, listed, nRequests,
                   pools, probe, handles, process, database>>

\* await db.query(...) resolves
QuerySucceeds(c) ==
    /\ ~process.exited
    /\ calls[c].pc = "query"
    /\ c \in handles
    /\ calls' = [calls EXCEPT ![c] =
            IF calls[c].queriesLeft = 1
            THEN [@ EXCEPT !.pc = "disconnect",
                           !.queriesLeft = 0,
                           !.io = Append(@, "query"),
                           !.result = ResultOnSuccess(calls[c].op, calls[c].args)]
            ELSE [@ EXCEPT !.queriesLeft = @ - 1, !.io = Append(@, "query")]]
    /\ UNCHANGED <<options, env, configFile, serverVars, log, listed, nRequests,
                   pools, probe, handles, process, database>>

\* await db.query(...) rejects
QueryFails(c) ==
    /\ ~process.exited
    /\ calls[c].pc = "query"
    /\ calls' = [calls EXCEPT ![c] =
            [@ EXCEPT !.pc = "disconnect",
                      !.io = Append(@, IF c \in handles THEN "query failed"
                                       ELSE "query without connection"),
                      !.result = ResultOnError(calls[c].op,
                                               QueryFailure(handles, c))]]
    /\ UNCHANGED <<options, env, configFile, serverVars, log, listed, nRequests,
                   pools, probe, handles, process, database>>

\* finally { await db.disconnect() } resolves; execute returns or throws and
\* the handler answers.
Disconnect(c) ==
    /\ ~process.exited
    /\ calls[c].pc = "disconnect"
    /\ handles' = HandlesAfterDisconnect(handles, c)
    /\ LET call == [calls[c] EXCEPT !.io = Append(@, "disconnect")]
       IN calls' = [calls EXCEPT ![c] =
            Settled(call, ExecuteFinish(call.execute, call.op, call.result))]
    /\ UNCHANGED <<options, env, configFile, serverVars, log, listed, nRequests,
                   pools, probe, process, database>>

(***************************************************************************)
(* Spec: a running server answering CallTool requests.                     *)
(***************************************************************************)
ArgumentChoices ==
    { NoArguments,
      Arguments(Undefined, Undefined, Undefined, Undefined, Undefined,
                Undefined, Undefined, Undefined),
      Arguments(Undefined, "performance", "get", Undefined, Undefined,
                Undefined, Undefined, Undefined),
      Arguments("postgresql://arg/db", "security", "get", "f", Undefined,
                Undefined, Undefined, "app"),
      Arguments("", Undefined, "create", Undefined, Undefined,
                Undefined, "", Undefined),
      Arguments("postgresql://arg/db", "everything", "create", "f", "TEXT",
                "SELECT 1", "", Undefined),
      Arguments("postgresql://arg/db", Undefined, "drop", "f", Undefined,
                Undefined, Undefined, Undefined),
      Arguments("postgresql://arg/db", Undefined, "rename", "f", Undefined,
                Undefined, Undefined, Undefined) }

RequestNames ==
    {"pg_analyze_database", "pg_get_functions", "pg_manage_functions",
     "pg_no_such_tool", "constructor"}

\* The servers the requests are sent to: all tools enabled and no default
\* connection string; pg_get_functions disabled by the allow-list and a
\* default connection string in the environment.
Setups ==
    { [tools |-> <<analyzeDatabaseTool, getFunctionsTool, manageFunctionsTool>>,
       toolsConfig |-> Undefined, file |-> UnreadableFile,
       cli |-> Undefined, env |-> Undefined],
      [tools |-> <<analyzeDatabaseTool, getFunctionsTool, manageFunctionsTool>>,
       toolsConfig |-> "tools.json",
       file |-> AllowListFile(<<"pg_manage_functions", "pg_analyze_database">>),
       cli |-> Undefined, env |-> "postgresql://env/db"] }

\* The state after new PostgreSQLServer(tools) and run().
Init ==
    \E s \in Setups :
        /\ options = [connectionString |-> s.cli, toolsConfig |-> s.toolsConfig]
        /\ env = s.env
        /\ configFile = s.file
        /\ phase = "running"
        /\ LET loaded == LoadAndFilterTools(This(s.tools, << >>, << >>),
                                            options, configFile)
           IN /\ availableToolsList = loaded.availableToolsList
              /\ enabledTools = loaded.enabledTools
              /\ enabledToolsMap = loaded.enabledToolsMap
              /\ capabilities = ListingOf(loaded.enabledTools)
              /\ log = loaded.log
        /\ listed = NotListed
        /\ calls = [c \in CallIds |-> IdleCall]
        /\ nRequests = 0
        /\ pools = EmptyBag
        /\ handles = {}
        /\ process = NoProcess
        /\ database = NoDatabase
        /\ probe = NoProbe

Next ==
    \/ \E c \in DOMAIN calls, toolName \in RequestNames, args \in ArgumentChoices :
          CallTool(c, toolName, args)
    \/ \E c \in DOMAIN calls : ConnectSucceeds(c)
    \/ \E c \in DOMAIN calls : ConnectFails(c)
    \/ \E c \in DOMAIN calls : QuerySucceeds(c)
    \/ \E c \in DOMAIN calls : QueryFails(c)
    \/ \E c \in DOMAIN calls : Disconnect(c)
    \/ ListTools

Spec == Init /\ [][Next]_vars

(***************************************************************************)
(* SpecWide: one request after another to the two wide tools, on a server  *)
(* that registers them and on the server index.ts assembles.               *)
(***************************************************************************)
\* The state after new PostgreSQLServer(s.tools) and run(), before any request.
StartedWith(s, ids, db) ==
    /\ options = [connectionString |-> s.cli, toolsConfig |-> s.toolsConfig]
    /\ env = s.env
    /\ configFile = s.file
    /\ phase = "running"
    /\ LET loaded == LoadAndFilterTools(This(s.tools, << >>, << >>),
                                        options, configFile)
       IN /\ availableToolsList = loaded.availableToolsList
          /\ enabledTools = loaded.enabledTools
          /\ enabledToolsMap = loaded.enabledToolsMap
          /\ capabilities = ListingOf(loaded.enabledTools)
          /\ log = loaded.log
    /\ listed = NotListed
    /\ calls = [c \in ids |-> IdleCall]
    /\ nRequests = 0
    /\ pools = EmptyBag
    /\ handles = {}
    /\ process = NoProcess
    /\ database = db
    /\ probe = NoProbe

Started(s, ids) == StartedWith(s, ids, NoDatabase)

WideSetups ==
    { [tools |-> <<manageFunctionsTool, manageRLSTool>>,
       toolsConfig |-> Undefined, file |-> UnreadableFile,
       cli |-> Undefined, env |-> Undefined],
      [tools |-> <<manageFunctionsTool, manageRLSTool>>,
       toolsConfig |-> Undefined, file |-> UnreadableFile,
       cli |-> Undefined, env |-> "postgresql://env/db"],
      [tools |-> allTools,
       toolsConfig |-> Undefined, file |-> UnreadableFile,
       cli |-> Undefined, env |-> "postgresql://env/db"] }

OperationValues ==
    {Undefined, "", "get", "create", "drop", "rename", "enable", "disable",
     "create_policy", "edit_policy", "drop_policy", "get_policies"}

FunctionsArgumentChoices ==
    { Arguments(cs, Undefined, operation, functionName, returnType,
                functionBody, "", Undefined) :
        cs \in {Undefined, "postgresql://arg/db"},
        operation \in OperationValues,
        functionName \in {Undefined, "f"},
        returnType \in {Undefined, "TEXT"},
        functionBody \in {Undefined, "SELECT 1"} }

RLSArgumentChoices ==
    { RLSArguments(cs, operation, tableName, policyName, using, Undefined,
                   Undefined, Undefined) :
        cs \in {Undefined, "postgresql://arg/db"},
        operation \in OperationValues,
        tableName \in {Undefined, "t"},
        policyName \in {Undefined, "p"},
        using \in {Undefined, "owner = current_user"} }

InitWide == \E s \in WideSetups : Started(s, {1})

NextWide ==
    \/ \E c \in DOMAIN calls, args \in FunctionsArgumentChoices \cup {NoArguments} :
          CallTool(c, "pg_manage_functions", args)
    \/ \E c \in DOMAIN calls, args \in RLSArgumentChoices \cup {NoArguments} :
          CallTool(c, "pg_manage_rls", args)
    \/ \E c \in DOMAIN calls : ConnectSucceeds(c)
    \/ \E c \in DOMAIN calls : ConnectFails(c)
    \/ \E c \in DOMAIN calls : QuerySucceeds(c)
    \/ \E c \in DOMAIN calls : QueryFails(c)
    \/ \E c \in DOMAIN calls : Disconnect(c)

SpecWide == InitWide /\ [][NextWide]_vars

(***************************************************************************)
(* Claims about dispatch (checked under Spec).                             *)
(***************************************************************************)
Registered(toolName) ==
    \E i \in DOMAIN availableToolsList : availableToolsList[i].name = toolName

Received(c) == calls[c].pc # "idle"
Answered(c) == calls[c].pc = "done"

NoDatabaseIO(c) == calls[c].io = << >>

\* C1: for every tool name that is not in the Registry and any arguments,
\* the call resolves to an envelope with isError = true whose message says
\* that the tool is not enabled or does not exist, and no execute is invoked.
C1_UnknownToolRejected ==
    \A c \in DOMAIN calls :
        (Received(c) /\ ~Registered(calls[c].name)) =>
            /\ Answered(c)
            /\ calls[c].response.sent
            /\ calls[c].response.isError
            /\ Contains(calls[c].response.text, "' is not enabled or does not exist.")
            /\ calls[c].execute = Undefined
            /\ NoDatabaseIO(c)

\* C2: for every tool name in the Registry that the allow-list excludes, the
\* call returns isError = true with a message that differs from the one for
\* a name that never existed and says the tool is available but not enabled;
\* execute is not run, no connection string is resolved and no database
\* round trip happens for the call.
C2_DisabledToolRejected ==
    \A c \in DOMAIN calls :
        (/\ Received(c)
         /\ Registered(calls[c].name)
         /\ WellFormedAllowList
         /\ calls[c].name \notin AllowedNames) =>
            /\ Answered(c)
            /\ calls[c].response.sent
            /\ calls[c].response.isError
            /\ Contains(calls[c].response.text,
                        "\" is available but not enabled by the current server configuration.")
            /\ ~Contains(calls[c].response.text, "' is not enabled or does not exist.")
            /\ calls[c].execute = Undefined
            /\ calls[c].resolved = "no"
            /\ NoDatabaseIO(c)

C2_Witness ==
    \E c \in DOMAIN calls :
        /\ Answered(c)
        /\ calls[c].name = "pg_get_functions"
        /\ Truthy(calls[c].args.connectionString)
        /\ WellFormedAllowList
        /\ calls[c].name \notin AllowedNames
        /\ calls[c].response.isError

\* C3: every call resolves to one envelope and no exception passes the
\* dispatch boundary: the response is the envelope execute returned,
\* unmodified, or, when the lookup failed or execute threw, an error
\* envelope carrying the original error message; the dispatcher never
\* produces a success envelope of its own.  A call that is not answered yet
\* is waiting for a database round trip.
C3_OneEnvelopePerCall ==
    \A c \in DOMAIN calls :
        /\ (Received(c) /\ ~Answered(c)) =>
              /\ ~calls[c].response.sent
              /\ ENABLED (ConnectSucceeds(c) \/ QuerySucceeds(c) \/ Disconnect(c))
        /\ Answered(c) =>
              /\ calls[c].response.sent
              /\ ~calls[c].response.propagated
              /\ IF calls[c].executeOutcome.kind = "returned"
                 THEN /\ calls[c].response.isError = calls[c].executeOutcome.isError
                      /\ calls[c].response.text = calls[c].executeOutcome.text
                 ELSE /\ calls[c].response.isError
                      /\ calls[c].caught # << >>
                      /\ \A i \in DOMAIN calls[c].caught :
                            Contains(calls[c].response.text, calls[c].caught[i])
              /\ ~calls[c].response.isError =>
                    /\ calls[c].executeOutcome.kind = "returned"
                    /\ ~calls[c].executeOutcome.isError

C3_Witness ==
    \E c \in DOMAIN calls :
        /\ Answered(c)
        /\ calls[c].executeOutcome.kind = "threw"
        /\ calls[c].io = <<"connect", "query", "query failed", "disconnect">>
        /\ calls[c].response.isError
        /\ calls[c].response.text = <<"Error: ">> \o QueryError

\* C4: execute itself never throws: for all arguments and all outcomes of
\* connection-string resolution, connect and query it returns an envelope,
\* with isError = true on every failure path.
C4_ExecuteNeverThrows ==
    \A c \in DOMAIN calls :
        (Answered(c) /\ calls[c].execute # Undefined) =>
            /\ calls[c].executeOutcome.kind = "returned"
            /\ (\/ calls[c].resolved = "threw"
                \/ \E i \in DOMAIN calls[c].io :
                      calls[c].io[i] \in {"connect failed", "query failed"})
                  => calls[c].executeOutcome.isError

\* No explicit, CLI or environment connection string is there for the call.
NoConnectionStringFor(c) ==
    /\ ~Truthy(calls[c].args.connectionString)
    /\ ~Truthy(options.connectionString)
    /\ ~Truthy(env)

Failed(io) == \E i \in DOMAIN io : io[i] \in {"connect failed", "query failed"}

\* C10: when no connection string can be resolved for a call, that call
\* alone fails: it is answered by an error envelope before any database
\* round trip, the Registry, the Enabled-Tool Set and the connection state
\* stay as they were, and a later call that supplies a connection string is
\* processed normally.
C10_OnlyTheCallFails ==
    /\ [](\A c \in DOMAIN calls :
            (Received(c) /\ NoConnectionStringFor(c)) =>
                /\ Answered(c)
                /\ calls[c].response.sent
                /\ ~calls[c].response.propagated
                /\ calls[c].response.isError
                /\ NoDatabaseIO(c))
    /\ [][\A c \in DOMAIN calls :
            (calls'[c] # calls[c] /\ calls'[c].pc # "idle"
             /\ ~Truthy(calls'[c].args.connectionString)
             /\ ~Truthy(options.connectionString) /\ ~Truthy(env)) =>
                /\ phase' = "running"
                /\ availableToolsList' = availableToolsList
                /\ enabledTools' = enabledTools
                /\ enabledToolsMap' = enabledToolsMap
                /\ pools' = pools]_vars
    /\ [](\A c \in DOMAIN calls :
            (/\ Answered(c)
             /\ calls[c].afterNoConnection
             /\ calls[c].name = "pg_get_functions"
             /\ Truthy(calls[c].args.connectionString)) =>
                /\ calls[c].cs = calls[c].args.connectionString
                /\ Len(calls[c].io) >= 2
                /\ calls[c].io[1] \in {"connect", "connect failed"}
                /\ calls[c].response.isError = Failed(calls[c].io))

C10_Witness ==
    \E c \in DOMAIN calls :
        /\ Answered(c)
        /\ calls[c].afterNoConnection
        /\ calls[c].cs = "postgresql://arg/db"
        /\ calls[c].io = <<"connect", "query", "disconnect">>
        /\ ~calls[c].response.isError
        /\ ~Truthy(options.connectionString)
        /\ ~Truthy(env)

(***************************************************************************)
(* Claims about the wide tools (checked under SpecWide).                   *)
(***************************************************************************)
WideExecutes == {"manageFunctionsTool.execute", "manageRLSTool.execute"}

\* The enumerated operation set of the wide tool that runs as execute.
OperationsOf(execute) ==
    IF execute = "manageFunctionsTool.execute"
    THEN {FunctionsOperations[i] : i \in DOMAIN FunctionsOperations}
    ELSE {RLSOperations[i] : i \in DOMAIN RLSOperations}

\* The call was dispatched to a wide tool.
ToWideTool(c) == Received(c) /\ calls[c].execute \in WideExecutes

AttemptedIO(c) == calls[c].pc \in {"connect", "query", "disconnect"} \/ ~NoDatabaseIO(c)

\* C11: for each wide tool, a call whose operation is outside the tool's
\* enumerated set (an absent operation included) is answered with isError =
\* true and a message that enumerates every valid operation of the tool, and
\* no connect or query is issued for the call.
C11_UnknownOperationListsValidSet ==
    \A c \in DOMAIN calls :
        (ToWideTool(c)
         /\ calls[c].args.operation \notin OperationsOf(calls[c].execute)) =>
            /\ Answered(c)
            /\ calls[c].response.isError
            /\ \A operation \in OperationsOf(calls[c].execute) :
                   Contains(calls[c].response.text, operation)
            /\ ~AttemptedIO(c)

\* The fields a branch checks for presence before it runs its operation.
RequiredFields(execute, operation) ==
    IF execute = "manageFunctionsTool.execute"
    THEN CASE operation = "create" -> {"functionName", "returnType", "functionBody"}
           [] operation = "drop" -> {"functionName"}
           [] OTHER -> {}
    ELSE CASE operation \in {"enable", "disable"} -> {"tableName"}
           [] operation = "create_policy" -> {"tableName", "policyName", "using"}
           [] operation \in {"edit_policy", "drop_policy"} -> {"tableName", "policyName"}
           [] OTHER -> {}

\* The required fields of its branch that the request of call c leaves out.
Omitted(c) ==
    { f \in RequiredFields(calls[c].execute, calls[c].args.operation) :
        calls[c].args[f] = Undefined }

\* C12: for every branch of a wide tool that has required fields, a call
\* that omits any non-empty subset of them is answered with one envelope
\* with isError = true whose message names every omitted field, and the
\* database operation of the branch is not executed.
C12_EveryOmittedFieldNamed ==
    \A c \in DOMAIN calls :
        (ToWideTool(c) /\ calls[c].args.defined /\ Omitted(c) # {}) =>
            /\ Answered(c)
            /\ calls[c].response.sent
            /\ ~calls[c].response.propagated
            /\ calls[c].response.isError
            /\ \A f \in Omitted(c) : Contains(calls[c].response.text, f)
            /\ ~AttemptedIO(c)

\* The server was assembled as index.ts assembles it, with no allow-list.
AssembledAtStartup ==
    /\ availableToolsList = allTools
    /\ options.toolsConfig = Undefined

\* {operation: "create", parameters: ""}
CreateWithoutFields ==
    Arguments(Undefined, Undefined, "create", Undefined, Undefined, Undefined,
              "", Undefined)

\* C13: on the server as assembled at startup with no allow-list,
\* callTool("pg_manage_functions", {operation: "create", parameters: ""}) is
\* routed to the functions meta-tool and answered with isError = true and a
\* message in which functionName, returnType and functionBody all appear.
C13_CreateScenarioNamesAllThree ==
    \A c \in DOMAIN calls :
        (AssembledAtStartup /\ Received(c)
         /\ calls[c].name = "pg_manage_functions"
         /\ calls[c].args = CreateWithoutFields) =>
            /\ Answered(c)
            /\ calls[c].execute = "manageFunctionsTool.execute"
            /\ calls[c].response.isError
            /\ \A f \in {"functionName", "returnType", "functionBody"} :
                   Contains(calls[c].response.text, f)

(***************************************************************************)
(* SpecFair: Spec with every awaited round trip settling eventually: the   *)
(* promise of connect, query or disconnect resolves or rejects.            *)
(***************************************************************************)
RoundTrip(c) ==
    \/ ConnectSucceeds(c)
    \/ ConnectFails(c)
    \/ QuerySucceeds(c)
    \/ QueryFails(c)
    \/ Disconnect(c)

SpecFair == Init /\ [][Next]_vars /\ \A c \in CallIds : WF_vars(RoundTrip(c))

ConnectAttempted(c) ==
    \E i \in DOMAIN calls[c].io : calls[c].io[i] \in {"connect", "connect failed"}

Disconnected(c) ==
    \E i \in DOMAIN calls[c].io :
        /\ calls[c].io[i] = "disconnect"
        /\ \E j \in 1..(i - 1) : calls[c].io[j] \in {"connect", "connect failed"}

\* C14: in every execution of every operation, each connect attempt is
\* eventually followed by a disconnect by the same call, whether the
\* connect failed, a query failed or the operation succeeded: a call that
\* awaits connect is eventually answered, and an answered call that
\* attempted a connect has disconnected after it.
C14_ConnectFollowedByDisconnect ==
    \A c \in CallIds :
        /\ [](calls[c].pc = "connect" => <>Answered(c))
        /\ []((Answered(c) /\ ConnectAttempted(c)) => Disconnected(c))

(***************************************************************************)
(* SpecConcurrent: two CallTool invocations in flight at once against the  *)
(* same connection string; their round trips interleave in any order and   *)
(* every awaited round trip settles eventually.                            *)
(***************************************************************************)
ConcurrentCallIds == {1, 2}

ConcurrentSetup ==
    [tools |-> <<analyzeDatabaseTool, getFunctionsTool, manageFunctionsTool,
                 manageRLSTool>>,
     toolsConfig |-> Undefined, file |-> UnreadableFile,
     cli |-> Undefined, env |-> "postgresql://env/db"]

\* Requests that all resolve to the connection string of the environment.
ConcurrentRequests ==
    { [name |-> "pg_get_functions",
       args |-> Arguments(Undefined, Undefined, Undefined, "f", Undefined,
                          Undefined, Undefined, "app")],
      [name |-> "pg_manage_functions",
       args |-> Arguments("postgresql://env/db", Undefined, "create", "f",
                          "TEXT", "SELECT 1", "", Undefined)],
      [name |-> "pg_analyze_database",
       args |-> Arguments(Undefined, "performance", Undefined, Undefined,
                          Undefined, Undefined, Undefined, Undefined)],
      [name |-> "pg_manage_rls",
       args |-> RLSArguments(Undefined, "edit_policy", "t", "p", Undefined,
                             Undefined, Undefined, Undefined)] }

InitConcurrent == Started(ConcurrentSetup, ConcurrentCallIds)

NextConcurrent ==
    \/ \E c \in DOMAIN calls, request \in ConcurrentRequests :
          CallTool(c, request.name, request.args)
    \/ \E c \in DOMAIN calls : ConnectSucceeds(c)
    \/ \E c \in DOMAIN calls : ConnectFails(c)
    \/ \E c \in DOMAIN calls : QuerySucceeds(c)
    \/ \E c \in DOMAIN calls : QueryFails(c)
    \/ \E c \in DOMAIN calls : Disconnect(c)

SpecConcurrent ==
    /\ InitConcurrent
    /\ [][NextConcurrent]_vars
    /\ \A c \in ConcurrentCallIds : WF_vars(RoundTrip(c))

\* The result of the operation of a call, from the round trips of that call
\* alone.
OwnResult(call) ==
    IF \E i \in DOMAIN call.io : call.io[i] = "connect failed"
    THEN ResultOnError(call.op, ConnectError)
    ELSE IF \E i \in DOMAIN call.io : call.io[i] = "query failed"
    THEN ResultOnError(call.op, QueryError)
    ELSE ResultOnSuccess(call.op, call.args)

\* The envelope the handler answers a call with when no other call runs.
AloneResponse(call) ==
    LET started == ExecuteStart(call.execute, call.args, options, env)
        outcome == IF started.kind = "await"
                   THEN ExecuteFinish(call.execute, started.op, OwnResult(call))
                   ELSE started
    IN IF outcome.kind = "throw" THEN Catch(outcome.text) ELSE Forward(outcome)

InFlight(c) == calls[c].pc \in {"connect", "query", "disconnect"}

Signals == {"SIGINT", "SIGTERM"}

Event(h, what) == [handler |-> h, what |-> what]

\* process.on(signal, async () => { await this.cleanup(); process.exit(0) })
\* with the await left out: cleanup is started and the process exits.
SignalWithoutAwait(signal) ==
    /\ ~process.exited
    /\ Len(process.handlers) < MaxSignals
    /\ LET h == Len(process.handlers) + 1
       IN process' =
            [handlers |-> Append(process.handlers, [signal |-> signal, pc |-> "exit"]),
             events |-> process.events \o <<Event(h, "cleanupPools called"),
                                             Event(h, "exit")>>,
             exited |-> TRUE]
    /\ log' = log \cup {LogEntry("error", "Shutting down PostgreSQL MCP server...", Undefined)}
    /\ UNCHANGED <<options, env, configFile, serverVars, listed, calls,
                   nRequests, pools, probe, handles, database>>

\* A termination signal arrives: its handler calls cleanup(), which logs,
\* calls DatabaseConnection.cleanupPools() and awaits it.
Signal(signal) ==
    /\ ~process.exited
    /\ Len(process.handlers) < MaxSignals
    /\ LET h == Len(process.handlers) + 1
       IN process' =
            [process EXCEPT
                !.handlers = Append(@, [signal |-> signal, pc |-> "cleanupPools"]),
                !.events = Append(@, Event(h, "cleanupPools called"))]
    /\ log' = log \cup {LogEntry("error", "Shutting down PostgreSQL MCP server...", Undefined)}
    /\ UNCHANGED <<options, env, configFile, serverVars, listed, calls,
                   nRequests, pools, probe, handles, database>>

\* await DatabaseConnection.cleanupPools() resolves in handler h, which
\* goes on to await this.server.close().
CleanupPoolsResolves(h) ==
    /\ ~process.exited
    /\ h \in DOMAIN process.handlers
    /\ process.handlers[h].pc = "cleanupPools"
    /\ pools' = PoolsAfterCleanup(pools)
    /\ process' =
         [process EXCEPT
             !.handlers[h].pc = "server.close",
             !.events = @ \o <<Event(h, "cleanupPools resolved"),
                                Event(h, "server.close called")>>]
    /\ UNCHANGED <<options, env, configFile, serverVars, log, listed, calls,
                   nRequests, probe, handles, database>>

\* await this.server.close() resolves in handler h: cleanup() returns and
\* the handler calls process.exit(0).
ServerCloseResolves(h) ==
    /\ ~process.exited
    /\ h \in DOMAIN process.handlers
    /\ process.handlers[h].pc = "server.close"
    /\ process' =
         [process EXCEPT
             !.handlers[h].pc = "exit",
             !.events = @ \o <<Event(h, "server.close resolved"),
                                Event(h, "exit")>>,
             !.exited = TRUE]
    /\ UNCHANGED <<options, env, configFile, serverVars, log, listed, calls,
                   nRequests, pools, probe, handles, database>>

ShutdownSetup ==
    [tools |-> <<getFunctionsTool, manageRLSTool>>,
     toolsConfig |-> Undefined, file |-> UnreadableFile,
     cli |-> Undefined, env |-> "postgresql://env/db"]

\* Requests for two different connection strings.
ShutdownRequests ==
    { [name |-> "pg_get_functions",
       args |-> Arguments(Undefined, Undefined, Undefined, Undefined,
                          Undefined, Undefined, Undefined, Undefined)],
      [name |-> "pg_get_functions",
       args |-> Arguments("postgresql://arg/db", Undefined, Undefined, "f",
                          Undefined, Undefined, Undefined, Undefined)],
      [name |-> "pg_manage_rls",
       args |-> RLSArguments(Undefined, "enable", "t", Undefined, Undefined,
                             Undefined, Undefined, Undefined)] }

InitShutdown == Started(ShutdownSetup, {1})

NextShutdown ==
    \/ \E c \in DOMAIN calls, request \in ShutdownRequests :
          CallTool(c, request.name, request.args)
    \/ \E c \in DOMAIN calls : ConnectSucceeds(c)
    \/ \E c \in DOMAIN calls : ConnectFails(c)
    \/ \E c \in DOMAIN calls : QuerySucceeds(c)
    \/ \E c \in DOMAIN calls : QueryFails(c)
    \/ \E c \in DOMAIN calls : Disconnect(c)
    \/ \E signal \in Signals : Signal(signal)
    \/ \E h \in 1..MaxSignals : CleanupPoolsResolves(h)
    \/ \E h \in 1..MaxSignals : ServerCloseResolves(h)

SpecShutdown ==
    /\ InitShutdown
    /\ [][NextShutdown]_vars
    /\ \A h \in 1..MaxSignals :
          WF_vars(CleanupPoolsResolves(h) \/ ServerCloseResolves(h))

(***************************************************************************)
(* Claims about shutdown and the connection cache (under SpecShutdown).    *)
(***************************************************************************)
Happened(what) ==
    { i \in DOMAIN process.events : process.events[i].what = what }

\* Handler h did what before the event at position i.
Before(i, h, what) ==
    \E j \in 1..(i - 1) : process.events[j] = Event(h, what)

\* C16: during graceful shutdown the pool teardown
\* (DatabaseConnection.cleanupPools, through cleanup) is invoked exactly
\* once, for any sequence of termination signals (SIGINT, SIGTERM, or both
\* arriving while the first teardown is still awaited), and invoking it
\* again is harmless: it leaves the cache as the first teardown left it.
C16_TeardownInvokedOnce ==
    /\ Cardinality(Happened("cleanupPools called")) <= 1
    /\ process.exited => Cardinality(Happened("cleanupPools called")) = 1
    /\ PoolsAfterCleanup(PoolsAfterCleanup(pools)) = PoolsAfterCleanup(pools)

\* The order of the steps of every handler, as far as it got.
ShutdownOrder ==
    /\ \A i \in DOMAIN process.events :
          LET e == process.events[i]
          IN /\ e.what = "server.close called" =>
                    Before(i, e.handler, "cleanupPools resolved")
             /\ e.what = "exit" =>
                    /\ Before(i, e.handler, "server.close resolved")
                    /\ Before(i, e.handler, "cleanupPools resolved")
    /\ process.exited <=> Happened("exit") # {}

\* C17: on a termination signal the pooled connections are closed first,
\* then the server transport is closed, then the process exits: the
\* process does exit, the transport close is never started before the pool
\* teardown has completed (leaving no pool), and the process never exits
\* before the transport close has completed.
C17_ShutdownInOrder ==
    /\ [](process.handlers # << >> => <>process.exited)
    /\ []ShutdownOrder
    /\ [][(Happened("cleanupPools resolved")' # Happened("cleanupPools resolved"))
            => pools' = EmptyBag]_vars

\* SIGINT, then SIGTERM while the first teardown was awaited, and the
\* process has exited with a pool having been open.
C17_Witness ==
    /\ process.exited
    /\ Len(process.handlers) = 2
    /\ process.handlers[1].signal = "SIGINT"
    /\ process.handlers[2].signal = "SIGTERM"
    /\ process.events[2] = Event(2, "cleanupPools called")
    /\ \E c \in DOMAIN calls : ConnectAttempted(c)

\* Call c is awaiting connect and the step resolves it.
Acquires(c) ==
    /\ calls[c].pc = "connect"
    /\ calls'[c].io = Append(calls[c].io, "connect")

\* Call c is awaiting disconnect and the step resolves it.
Releases(c) ==
    /\ calls[c].pc = "disconnect"
    /\ calls'[c].pc = "done"

\* C18: the connection cache holds at most one pool per connection string
\* in every reachable state; acquiring for a string that is not pooled
\* creates its pool, acquiring for a pooled string reuses the pool, the
\* disconnect of a call releases its handle and leaves every pool in place,
\* and a pool disappears only when cleanupPools completes.
C18_OnePoolPerConnectionString ==
    /\ [](\A cs \in BagToSet(pools) : CopiesIn(cs, pools) = 1)
    /\ [][\A c \in DOMAIN calls :
            /\ Acquires(c) =>
                  /\ CopiesIn(calls[c].cs, pools') = 1
                  /\ c \in handles'
                  /\ BagIn(calls[c].cs, pools) => pools' = pools
                  /\ \A cs \in BagToSet(pools) :
                        CopiesIn(cs, pools') = CopiesIn(cs, pools)
            /\ Releases(c) =>
                  /\ pools' = pools
                  /\ handles' = handles \ {c}]_vars
    /\ [][(\E cs \in BagToSet(pools) : CopiesIn(cs, pools') < CopiesIn(cs, pools))
            => Happened("cleanupPools resolved")' # Happened("cleanupPools resolved")]_vars

\* Two connection strings own a pool each, the second request reused no
\* pool of the first, and the call has disconnected with both left open.
C18_Witness ==
    /\ BagToSet(pools) = {"postgresql://env/db", "postgresql://arg/db"}
    /\ \E c \in DOMAIN calls : Answered(c) /\ Disconnected(c)
    /\ handles = {}
    /\ ~process.exited

(***************************************************************************)
(* Claims about the database-analysis tool (checked under Spec).           *)
(***************************************************************************)
\* C19: the database-analysis tool treats analysisType as optional: a call
\* that omits analysisType is not answered with a validation error
\* envelope, and when its connection string resolves it proceeds to the
\* analysis.
C19_AnalysisTypeOptional ==
    \A c \in DOMAIN calls :
        (Received(c)
         /\ calls[c].execute = "analyzeDatabaseTool.execute"
         /\ calls[c].args.defined
         /\ calls[c].args.analysisType = Undefined) =>
            /\ ~(Answered(c) /\ NoDatabaseIO(c) /\ calls[c].response.isError
                 /\ calls[c].resolved = "no")
            /\ ~GetConnectionString(calls[c].args.connectionString, options, env).threw
                  => calls[c].op = "analyzeDatabase"

(***************************************************************************)
(* SpecComment: setDatabaseComment, removeDatabaseComment and              *)
(* getDatabaseComment called one after another for one database object.    *)
(* A text is a sequence of characters; a statement is kept in parts.       *)
(***************************************************************************)
ObjectTypes ==
    {"table", "column", "function", "policy", "trigger", "constraint",
     "index", "sequence"}

\* The object types whose statement names the table the object belongs to.
NeedParent == {"column", "policy", "trigger", "constraint"}

CommentTexts ==
    { <<"o", "k">>, <<"i", "t", "'", "s">>, <<"N", "U", "L", "L">>, <<"'">> }

\* comment.replace(/'/g, "''")
RECURSIVE EscapeQuotes(_)
EscapeQuotes(text) ==
    IF text = << >> THEN << >>
    ELSE IF Head(text) = "'" THEN <<"'", "'">> \o EscapeQuotes(Tail(text))
    ELSE <<Head(text)>> \o EscapeQuotes(Tail(text))

\* The text removeDatabaseComment passes to setDatabaseComment as comment.
RemoveCommentValue == <<"N", "U", "L", "L">>

\* The COMMENT ON statement setDatabaseComment builds, or the error its
\* switch throws.  literal: what the statement has after IS.
CommentStatement(objectType, comment, opts) ==
    IF objectType \in NeedParent /\ ~Truthy(opts.parentObject)
    THEN [threw |-> TRUE,
          message |-> <<"Parent object (table name) is required for ", objectType, " comments">>,
          literal |-> << >>]
    ELSE IF objectType \notin ObjectTypes
    THEN [threw |-> TRUE,
          message |-> <<"Unsupported object type: ", objectType>>,
          literal |-> << >>]
    ELSE [threw |-> FALSE, message |-> << >>,
          literal |-> <<"'">> \o EscapeQuotes(comment) \o <<"'">>]

\* The text a string literal of a statement denotes: the characters between
\* the enclosing quotes, each doubled quote standing for one quote.
RECURSIVE UnescapeQuotes(_)
UnescapeQuotes(text) ==
    IF text = << >> THEN << >>
    ELSE IF Len(text) >= 2 /\ text[1] = "'" /\ text[2] = "'"
    THEN <<"'">> \o UnescapeQuotes(SubSeq(text, 3, Len(text)))
    ELSE <<Head(text)>> \o UnescapeQuotes(Tail(text))

\* The description the database stores after COMMENT ON ... IS literal:
\* none for the keyword NULL and for the empty string, else the string.
StoredAfter(literal) ==
    IF Head(literal) # "'" THEN Null
    ELSE LET text == UnescapeQuotes(SubSeq(literal, 2, Len(literal) - 1))
         IN IF text = << >> THEN Null ELSE text

\* The rows the query of getDatabaseComment returns.  table and sequence
\* read obj_description; column reads col_description of the relation named
\* objectName, and the database has no relation of the name of the column;
\* the other types join pg_description and have a row only for a stored
\* description.
CommentRows(objectType, stored) ==
    CASE objectType \in {"table", "sequence"} -> <<stored>>
      [] objectType = "column" -> <<Null>>
      [] OTHER -> IF stored = Null THEN << >> ELSE <<stored>>

NotRead == [read |-> FALSE, success |-> FALSE, comment |-> Null]

\* stage: "none", "set" after a successful setDatabaseComment, "removed"
\* after a successful removeDatabaseComment that followed it.
\* got: what the last getDatabaseComment since then returned.
CommentDatabase(objectType, parentObject) ==
    [used |-> TRUE, objectType |-> objectType,
     options |-> [parentObject |-> parentObject],
     stored |-> Null, stage |-> "none", success |-> FALSE,
     message |-> << >>, got |-> NotRead]

\* setDatabaseComment(connectionString, objectType, objectName, comment,
\* options), from connect to disconnect; reachable: connect and the query
\* succeed.
SetComment(connectionString, comment, reachable, stageAfter) ==
    /\ database.used
    /\ LET statement == CommentStatement(database.objectType, comment, database.options)
           success == reachable /\ ~statement.threw
       IN database' =
            [database EXCEPT
                !.stored = IF success THEN StoredAfter(statement.literal) ELSE @,
                !.stage = IF success THEN stageAfter ELSE @,
                !.success = success,
                !.message =
                    IF success
                    THEN <<"Comment set successfully on ", database.objectType, " ", "obj">>
                    ELSE <<"Failed to set comment: ">>
                         \o (IF statement.threw THEN statement.message ELSE QueryError),
                !.got = IF success THEN NotRead ELSE @]
    /\ pools' = PoolsAfterConnect(pools, connectionString)
    /\ UNCHANGED <<options, env, configFile, serverVars, log, listed, calls,
                   nRequests, probe, handles, process>>

SetDatabaseComment(connectionString, comment, reachable) ==
    SetComment(connectionString, comment, reachable, "set")

\* removeDatabaseComment(connectionString, objectType, objectName, options)
RemoveDatabaseComment(connectionString, reachable) ==
    SetComment(connectionString, RemoveCommentValue, reachable,
               IF database.stage \in {"set", "removed"} THEN "removed" ELSE "none")

\* getDatabaseComment(connectionString, objectType, objectName, options)
GetDatabaseComment(connectionString, reachable) ==
    /\ database.used
    /\ LET threw == database.objectType \in NeedParent
                    /\ ~Truthy(database.options.parentObject)
           success == reachable /\ ~threw
           rows == CommentRows(database.objectType, database.stored)
       IN database' =
            [database EXCEPT
                !.success = success,
                !.message =
                    IF success
                    THEN <<"Comment retrieved successfully for ", database.objectType, " ", "obj">>
                    ELSE <<"Failed to get comment: ">>
                         \o (IF threw
                             THEN <<"Parent object (table name) is required for ",
                                    database.objectType, " comments">>
                             ELSE QueryError),
                !.got = [read |-> TRUE, success |-> success,
                         comment |-> IF success /\ Len(rows) > 0 THEN rows[1] ELSE Null]]
    /\ pools' = PoolsAfterConnect(pools, connectionString)
    /\ UNCHANGED <<options, env, configFile, serverVars, log, listed, calls,
                   nRequests, probe, handles, process>>

InitComment ==
    \E objectType \in ObjectTypes, parentObject \in {Undefined, "t"} :
        StartedWith(ShutdownSetup, {1}, CommentDatabase(objectType, parentObject))

NextComment ==
    \/ \E comment \in CommentTexts, reachable \in BOOLEAN :
          SetDatabaseComment("postgresql://arg/db", comment, reachable)
    \/ \E reachable \in BOOLEAN :
          RemoveDatabaseComment("postgresql://arg/db", reachable)
    \/ \E reachable \in BOOLEAN :
          GetDatabaseComment("postgresql://arg/db", reachable)

SpecComment == InitComment /\ [][NextComment]_vars

\* C20: removeDatabaseComment removes the comment: for every object type,
\* after a successful setDatabaseComment followed by a successful
\* removeDatabaseComment on the same object, a successful getDatabaseComment
\* for that object reports no comment (null) and no comment text.
C20_RemovedCommentReadsNull ==
    (database.stage = "removed" /\ database.got.read /\ database.got.success)
        => database.got.comment = Null

(***************************************************************************)
(* The database behind the connection strings: for each connection string  *)
(* a catalog of functions, tables and tables with row-level security, and  *)
(* the statements of the functions and RLS operations executed on it.      *)
(***************************************************************************)
\* parameters.trim(), on the parameter texts the requests carry
Trim(text) ==
    CASE text \in {" ", "  "} -> ""
      [] text = " a integer " -> "a integer"
      [] OTHER -> text

\* normalizedParameters of the create branch
NormalizedParametersUnlessBlank(parameters) ==
    IF parameters \in {Undefined, Null} THEN "" ELSE parameters

NormalizedParameters(parameters) ==
    IF parameters \in {Undefined, Null} THEN ""
    ELSE IF Trim(parameters) = "" THEN ""
    ELSE parameters

\* The statement an operation sends with db.query.  name: the function or
\* table it names (for the SELECT of _getFunctions, the filter on proname).
Statement(op, args) ==
    CASE op = "_getFunctions" ->
            [kind |-> "select functions",
             schema |-> DefaultParameter(args.schema, "public"),
             name |-> args.functionName, parameters |-> Undefined]
      [] op = "_createFunction" ->
            [kind |-> "create function",
             schema |-> Default(args.schema, "public"),
             name |-> args.functionName,
             parameters |-> NormalizedParameters(args.parameters)]
      [] op = "_dropFunction" ->
            [kind |-> "drop function",
             schema |-> Default(args.schema, "public"),
             name |-> args.functionName, parameters |-> args.parameters]
      [] op = "_enableRLS" ->
            [kind |-> "enable rls",
             schema |-> DefaultParameter(args.schema, "public"),
             name |-> args.tableName, parameters |-> Undefined]
      [] op = "_disableRLS" ->
            [kind |-> "disable rls",
             schema |-> DefaultParameter(args.schema, "public"),
             name |-> args.tableName, parameters |-> Undefined]
      [] op = "_getRLSPolicies" ->
            [kind |-> "select policies",
             schema |-> DefaultParameter(args.schema, "public"),
             name |-> args.tableName, parameters |-> Undefined]
      [] op = "analyzeDatabase" ->
            [kind |-> "select statistics", schema |-> Undefined,
             name |-> Undefined, parameters |-> Undefined]

\* The tables with row-level security after ALTER TABLE table ENABLE ROW
\* LEVEL SECURITY.
RLSAfterEnableToggles(rls, table) ==
    IF table \in rls THEN rls \ {table} ELSE rls \cup {table}

RLSAfterEnable(rls, table) == rls \cup {table}

Schemas == {"public", "app"}
FunctionNames == <<"f", "g">>

\* A catalog: functions as [schema, name, parameters], the tables, and the
\* tables that have row-level security enabled.
EmptyCatalog ==
    [functions |-> {}, tables |-> {<<"public", "t">>}, rls |-> {}]

\* The parameter list a parameters text of a statement declares.
Signature(parameters) == IF Truthy(parameters) THEN Trim(parameters) ELSE ""

\* What the database does with a statement: whether it accepts it, the
\* catalog afterwards and the rows it returns.  CREATE FUNCTION (without OR
\* REPLACE) is rejected for a function that exists; DROP FUNCTION (without
\* IF EXISTS) for one that does not; ALTER TABLE for a table that does not
\* exist; ENABLE / DISABLE ROW LEVEL SECURITY on a table that already is in
\* that state is accepted and changes nothing.
Execute(catalog, statement) ==
    LET accepted(after, rows) == [accepted |-> TRUE, catalog |-> after, rows |-> rows]
        rejected == [accepted |-> FALSE, catalog |-> catalog, rows |-> << >>]
        function == [schema |-> statement.schema, name |-> statement.name,
                     parameters |-> Signature(statement.parameters)]
        named == { f \in catalog.functions :
                     f.schema = statement.schema /\ f.name = statement.name }
        table == <<statement.schema, statement.name>>
    IN CASE statement.kind = "select functions" ->
               accepted(catalog,
                   SelectSeq(FunctionNames,
                       LAMBDA n : /\ \E f \in catalog.functions :
                                        f.schema = statement.schema /\ f.name = n
                                  /\ Truthy(statement.name) => n = statement.name))
         [] statement.kind = "create function" ->
               IF statement.schema \notin Schemas \/ function \in catalog.functions
               THEN rejected
               ELSE accepted([catalog EXCEPT !.functions = @ \cup {function}], << >>)
         [] statement.kind = "drop function" ->
               IF Truthy(statement.parameters)
               THEN IF function \in catalog.functions
                    THEN accepted([catalog EXCEPT !.functions = @ \ {function}], << >>)
                    ELSE rejected
               ELSE IF Cardinality(named) = 1
                    THEN accepted([catalog EXCEPT !.functions = @ \ named], << >>)
                    ELSE rejected
         [] statement.kind = "enable rls" ->
               IF table \in catalog.tables
               THEN accepted([catalog EXCEPT !.rls = RLSAfterEnable(@, table)], << >>)
               ELSE rejected
         [] statement.kind = "disable rls" ->
               IF table \in catalog.tables
               THEN accepted([catalog EXCEPT !.rls = @ \ {table}], << >>)
               ELSE rejected
         [] statement.kind \in {"select policies", "select statistics"} ->
               accepted(catalog, << >>)

\* JSON.stringify of the rows of _getFunctions
RECURSIVE RowsText(_)
RowsText(rows) ==
    IF rows = << >> THEN << >>
    ELSE <<"{name: ", Head(rows), "}">> \o RowsText(Tail(rows))

\* The FunctionResult of an operation whose statement returned rows.
ResultWithRows(op, args, rows) ==
    IF op = "_getFunctions"
    THEN [ResultOnSuccess(op, args) EXCEPT !.details = <<"[">> \o RowsText(rows) \o <<"]">>]
    ELSE ResultOnSuccess(op, args)

\* The pool a query of a call runs on.
QueryTargetOtherPool(cache, call) ==
    IF BagToSet(cache) \ {call.cs} # {}
    THEN CHOOSE s \in BagToSet(cache) \ {call.cs} : TRUE
    ELSE call.cs

QueryTarget(cache, call) == call.cs

\* journal: for every statement executed, the call that sent it, the
\* connection string that call had resolved, the connection string of the
\* database the statement ran on, the statement and the catalog afterwards.
CatalogDatabase(connectionStrings) ==
    [used |-> TRUE,
     catalogs |-> [s \in connectionStrings |-> EmptyCatalog],
     journal |-> {}]

\* await db.query(sql) settles as the database decides.
QueryExecutes(c) ==
    /\ ~process.exited
    /\ calls[c].pc = "query"
    /\ c \in handles
    /\ LET call == calls[c]
           target == QueryTarget(pools, call)
           statement == Statement(call.op, call.args)
           executed == Execute(database.catalogs[target], statement)
       IN /\ database' =
                [database EXCEPT
                    !.catalogs[target] = executed.catalog,
                    !.journal = @ \cup {[call |-> c, resolved |-> call.cs,
                                          on |-> target,
                                          statement |-> statement,
                                          after |-> executed.catalog]}]
          /\ calls' = [calls EXCEPT ![c] =
                IF ~executed.accepted
                THEN [@ EXCEPT !.pc = "disconnect",
                               !.io = Append(@, "query failed"),
                               !.result = ResultOnError(call.op, QueryError)]
                ELSE IF call.queriesLeft = 1
                THEN [@ EXCEPT !.pc = "disconnect",
                               !.queriesLeft = 0,
                               !.io = Append(@, "query"),
                               !.result = ResultWithRows(call.op, call.args, executed.rows)]
                ELSE [@ EXCEPT !.queriesLeft = @ - 1, !.io = Append(@, "query")]]
    /\ UNCHANGED <<options, env, configFile, serverVars, log, listed, nRequests,
                   pools, probe, handles, process>>

(***************************************************************************)
(* SpecCatalog: a client sends one request after the other to              *)
(* pg_manage_functions and pg_manage_rls, each after the answer to the one *)
(* before; request i is call i.                                            *)
(***************************************************************************)
CatalogSetup ==
    [tools |-> <<manageFunctionsTool, manageRLSTool>>,
     toolsConfig |-> Undefined, file |-> UnreadableFile,
     cli |-> Undefined, env |-> "postgresql://env/db"]

CatalogRequests ==
    { [name |-> "pg_manage_functions",
       args |-> Arguments(Undefined, Undefined, "create", "f", "TEXT",
                          "SELECT 1", "", schema)] :
        schema \in {Undefined, "", "app"} }
    \cup
    { [name |-> "pg_manage_functions",
       args |-> Arguments(Undefined, Undefined, "create", "f", "TEXT",
                          "SELECT 1", parameters, Undefined)] :
        parameters \in {Undefined, Null, " ", "a integer"} }
    \cup
    { [name |-> "pg_manage_functions",
       args |-> Arguments(Undefined, Undefined, "get", functionName, Undefined,
                          Undefined, Undefined, schema)] :
        functionName \in {"f"}, schema \in {Undefined, "", "app"} }
    \cup
    { [name |-> "pg_manage_functions",
       args |-> Arguments(Undefined, Undefined, "drop", "f", Undefined,
                          Undefined, Undefined, Undefined)] }
    \cup
    { [name |-> "pg_manage_rls",
       args |-> RLSArguments(Undefined, operation, tableName, Undefined,
                             Undefined, Undefined, Undefined, Undefined)] :
        operation \in {"enable"}, tableName \in {"t", "missing"} }
    \cup
    { [name |-> "pg_manage_rls",
       args |-> RLSArguments(Undefined, "disable", "t", Undefined,
                             Undefined, Undefined, Undefined, Undefined)] }

InitCatalog ==
    StartedWith(CatalogSetup, 1..MaxRequests,
                CatalogDatabase({"postgresql://env/db"}))

NoCallInFlight == \A c \in DOMAIN calls : calls[c].pc \in {"idle", "done"}

NextCatalog ==
    \/ \E request \in CatalogRequests :
          /\ NoCallInFlight
          /\ nRequests + 1 \in DOMAIN calls
          /\ CallTool(nRequests + 1, request.name, request.args)
    \/ \E c \in DOMAIN calls : ConnectSucceeds(c)
    \/ \E c \in DOMAIN calls : ConnectFails(c)
    \/ \E c \in DOMAIN calls : QueryExecutes(c)
    \/ \E c \in DOMAIN calls : QueryFails(c)
    \/ \E c \in DOMAIN calls : Disconnect(c)

SpecCatalog == InitCatalog /\ [][NextCatalog]_vars

\* The call went through connect, its statement and disconnect and was
\* answered with a success envelope.
Succeeded(c) ==
    /\ Answered(c)
    /\ calls[c].io = <<"connect", "query", "disconnect">>
    /\ ~calls[c].response.isError

\* Calls c and d are a call of pg_manage_functions with the given operation
\* and the next call, of the other operation.
FunctionsCall(c, operation) ==
    /\ Received(c)
    /\ calls[c].execute = "manageFunctionsTool.execute"
    /\ calls[c].args.operation = operation

\* C21: round trip for functions: after a successful pg_manage_functions
\* create with a functionName and a schema argument (supplied, absent or
\* empty), the next call, a successful get with the same functionName and
\* the same schema argument, returns rows that contain the function of that
\* name.
C21_CreateThenGetReturnsFunction ==
    \A c \in DOMAIN calls :
        (/\ c + 1 \in DOMAIN calls
         /\ FunctionsCall(c, "create") /\ Succeeded(c)
         /\ FunctionsCall(c + 1, "get") /\ Succeeded(c + 1)
         /\ calls[c + 1].args.functionName = calls[c].args.functionName
         /\ calls[c + 1].args.schema = calls[c].args.schema
         /\ calls[c + 1].cs = calls[c].cs) =>
            Contains(calls[c + 1].response.text, calls[c].args.functionName)

\* The database executed the statement of call c; the catalog after it.
Executed(c) == \E e \in database.journal : e.call = c

CatalogAfter(c) == (CHOOSE e \in database.journal : e.call = c).after

RLSCall(c, operation) ==
    /\ Received(c)
    /\ calls[c].execute = "manageRLSTool.execute"
    /\ calls[c].args.operation = operation

\* Calls c and c + 1 are two enable calls for the same table, both answered
\* after the database executed their statement.
EnabledTwice(c) ==
    /\ c + 1 \in DOMAIN calls
    /\ RLSCall(c, "enable") /\ Answered(c) /\ Executed(c)
    /\ RLSCall(c + 1, "enable") /\ Answered(c + 1) /\ Executed(c + 1)
    /\ calls[c + 1].args = calls[c].args
    /\ calls[c + 1].cs = calls[c].cs

\* C22: the enable operation of pg_manage_rls invoked twice in succession
\* on the same table is idempotent: the second call is answered with the
\* envelope of the first (same isError, same message), and the tables with
\* row-level security after the second call are those after the first.
C22_EnableTwiceIsIdempotent ==
    \A c \in DOMAIN calls :
        EnabledTwice(c) =>
            /\ calls[c + 1].response = calls[c].response
            /\ CatalogAfter(c + 1).rls = CatalogAfter(c).rls

\* Both enable calls for the existing table succeeded.
C22_Witness ==
    \E c \in DOMAIN calls :
        /\ EnabledTwice(c)
        /\ Succeeded(c) /\ Succeeded(c + 1)
        /\ <<"public", calls[c].args.tableName>> \in CatalogAfter(c + 1).rls

\* Fragment key of the text is followed by value, after position from.
Reports(text, from, key, value) ==
    \E i \in (from + 1)..(Len(text) - 1) : text[i] = key /\ text[i + 1] = value

\* A create call that supplies functionName, returnType and functionBody,
\* whose connect succeeded and whose statement the database accepted.
CreateAccepted(c) ==
    /\ FunctionsCall(c, "create")
    /\ Truthy(calls[c].args.functionName)
    /\ Truthy(calls[c].args.returnType)
    /\ Truthy(calls[c].args.functionBody)
    /\ Answered(c)
    /\ calls[c].io = <<"connect", "query", "disconnect">>

\* C23: a pg_manage_functions create call that supplies functionName,
\* returnType and functionBody, against a reachable database that accepts
\* the statement, is answered with an envelope without isError whose text
\* is the success message with the functionName, followed by the details of
\* what was created: name, schema, returnType, language, volatility and
\* security.
C23_CreateReportsWhatWasCreated ==
    \A c \in DOMAIN calls :
        CreateAccepted(c) =>
            LET text == calls[c].response.text
                args == calls[c].args
            IN /\ calls[c].response.sent
               /\ ~calls[c].response.propagated
               /\ ~calls[c].response.isError
               /\ Len(text) > 3
               /\ SubSeq(text, 1, 3) = <<"Function ", args.functionName, " created successfully">>
               /\ Reports(text, 3, "{name: ", args.functionName)
               /\ Reports(text, 3, ", schema: ",
                          IF args.schema \in {Undefined, ""} THEN "public" ELSE args.schema)
               /\ Reports(text, 3, ", returnType: ", args.returnType)
               /\ Reports(text, 3, ", language: ", "plpgsql")
               /\ Reports(text, 3, ", volatility: ", "VOLATILE")
               /\ Reports(text, 3, ", security: ", "INVOKER")

\* A function was created in a schema the request names.
C23_Witness ==
    \E c \in DOMAIN calls :
        /\ CreateAccepted(c)
        /\ calls[c].args.schema = "app"
        /\ \E f \in CatalogAfter(c).functions : f.schema = "app" /\ f.name = "f"

(***************************************************************************)
(* More claims about the wide tools (checked under SpecWide).              *)
(***************************************************************************)
\* The message of the error the connect or the statement of call c was
\* rejected with; << >> when neither was.
UnderlyingError(c) ==
    IF \E i \in DOMAIN calls[c].io : calls[c].io[i] = "connect failed"
    THEN ConnectError
    ELSE IF \E i \in DOMAIN calls[c].io : calls[c].io[i] = "query failed"
    THEN QueryError
    ELSE << >>

\* C24: whenever the connect of a wide-tool branch fails or the database
\* rejects its statement, the call is answered with an envelope with
\* isError = true whose text contains the message of the underlying error:
\* the failure is never reported as success and its message never dropped.
C24_FailureCarriesUnderlyingMessage ==
    \A c \in DOMAIN calls :
        (ToWideTool(c) /\ Answered(c) /\ UnderlyingError(c) # << >>) =>
            /\ calls[c].response.sent
            /\ ~calls[c].response.propagated
            /\ calls[c].response.isError
            /\ \A i \in DOMAIN UnderlyingError(c) :
                   Contains(calls[c].response.text, UnderlyingError(c)[i])

\* A statement of an RLS branch was rejected after a successful connect.
C24_Witness ==
    \E c \in DOMAIN calls :
        /\ ToWideTool(c) /\ Answered(c)
        /\ calls[c].execute = "manageRLSTool.execute"
        /\ calls[c].io = <<"connect", "query failed", "disconnect">>

(***************************************************************************)
(* Claims about the registry while calls are processed (checked under      *)
(* Spec).                                                                  *)
(***************************************************************************)
\* C25: processing tool calls never changes the registry state: in every
\* step of a running server (a callTool request for an enabled, disabled or
\* unknown tool, or a round trip of a call that then succeeds or fails) the
\* Registry, the Enabled-Tool Set and the name-to-descriptor index are the
\* same after the step as before it, and a listTools response is the same
\* sequence as the listTools response before it.
C25_CallsLeaveRegistryUnchanged ==
    [][/\ availableToolsList' = availableToolsList
       /\ enabledTools' = enabledTools
       /\ enabledToolsMap' = enabledToolsMap
       /\ (listed.valid /\ listed'.valid) => listed'.tools = listed.tools
       /\ listed'.valid => listed'.tools = capabilities]_vars

\* Tools were listed after requests for an enabled tool and a tool that is
\* not enabled were both answered.
C25_Witness ==
    /\ listed.valid
    /\ nRequests = MaxRequests
    /\ \E c \in DOMAIN calls :
          /\ Answered(c)
          /\ calls[c].execute # Undefined
          /\ calls[c].afterNoConnection

(***************************************************************************)
(* Claims about listing and dispatch (checked under SpecFilter).           *)
(***************************************************************************)
\* The names a client may ask for: those of the descriptors and some more.
ProbedNames ==
    ToolNames(availableToolsList) \cup {"pg_no_such_tool", "constructor", "toString"}

\* The names in the listTools response.
ListedNames == { Listing(enabledTools[i]).name : i \in DOMAIN enabledTools }

\* callTool with this name reaches the execute of a tool.
ReachesExecute(toolName) ==
    /\ MapLookup(enabledToolsMap, toolName).truthy
    /\ MapLookup(enabledToolsMap, toolName).tool.execute # Undefined

\* C26: in every state of a constructed server the listing and the dispatch
\* index agree: a name is in the listTools response if and only if callTool
\* with that name reaches the execute of a tool, and the descriptor listed
\* under a name (description, schema) is the descriptor whose execute is
\* invoked for that name.
C26_ListingAgreesWithDispatch ==
    Constructed =>
        /\ \A toolName \in ProbedNames :
              toolName \in ListedNames <=> ReachesExecute(toolName)
        /\ \A i \in DOMAIN enabledTools :
              /\ enabledTools[i].name \in DOMAIN enabledToolsMap
              /\ enabledToolsMap[enabledTools[i].name] = enabledTools[i]

(***************************************************************************)
(* Claims about the statements of the wide tools (checked under SpecWide). *)
(***************************************************************************)
\* The statements call c has sent: the positions of its io that are queries.
StatementsOf(c) ==
    { i \in DOMAIN calls[c].io : calls[c].io[i] \in {"query", "query failed"} }

\* The call passed the validation of its branch: an operation was started.
PassedValidation(c) == ToWideTool(c) /\ calls[c].op # "none"

\* edit_policy with none of roles, using and check
EditsNothing(c) ==
    /\ calls[c].op = "_editRLSPolicy"
    /\ calls[c].args.roles = Undefined
    /\ calls[c].args.using = Undefined
    /\ calls[c].args.check = Undefined

\* C27: every branch of pg_manage_functions and pg_manage_rls that passes
\* validation and connects sends exactly one statement between its connect
\* and its disconnect.  The one exception is edit_policy called with none
\* of roles, using and check: it sends no statement, releases the
\* connection and is answered with the error envelope 'No changes specified
\* for the policy.'.  No call sends a statement without a connection or
\* more than one statement.
C27_OneStatementPerBranch ==
    \A c \in DOMAIN calls :
        PassedValidation(c) =>
            /\ Cardinality(StatementsOf(c)) <= 1
            /\ \A i \in StatementsOf(c) : i = 2 /\ calls[c].io[1] = "connect"
            /\ (Answered(c) /\ calls[c].io[1] = "connect") =>
                  IF EditsNothing(c)
                  THEN /\ calls[c].io = <<"connect", "disconnect">>
                       /\ calls[c].response.isError
                       /\ calls[c].response.text = <<"No changes specified for the policy.">>
                  ELSE /\ Cardinality(StatementsOf(c)) = 1
                       /\ Len(calls[c].io) = 3
                       /\ calls[c].io[3] = "disconnect"

\* edit_policy with no change to make was answered after connect and
\* disconnect.
C27_Witness ==
    \E c \in DOMAIN calls :
        /\ PassedValidation(c) /\ Answered(c)
        /\ EditsNothing(c)
        /\ calls[c].io = <<"connect", "disconnect">>

\* What C29 says of call c: it is answered by the handler's catch with the
\* 'No connection string provided' error envelope, without database I/O.
AnsweredNoConnectionString(c) ==
    /\ Answered(c)
    /\ calls[c].resolved = "threw"
    /\ calls[c].executeOutcome.kind = "threw"
    /\ calls[c].caught = NoConnectionStringMessage
    /\ calls[c].response.isError
    /\ calls[c].response.text = <<"Error: ">> \o NoConnectionStringMessage
    /\ ~AttemptedIO(c)

StatementExecuted(c) ==
    (CHOOSE e \in database.journal : e.call = c).statement

\* A create call that supplies functionName, returnType and functionBody.
CreateWithRequired(c) ==
    /\ FunctionsCall(c, "create")
    /\ Truthy(calls[c].args.functionName)
    /\ Truthy(calls[c].args.returnType)
    /\ Truthy(calls[c].args.functionBody)

\* parameters is absent, null, the empty string or whitespace only.
BlankParameters(c) == calls[c].args.parameters \in {Undefined, Null, "", " ", "  "}

IsolationSetup ==
    [tools |-> <<analyzeDatabaseTool, manageFunctionsTool, manageRLSTool>>,
     toolsConfig |-> Undefined, file |-> UnreadableFile,
     cli |-> Undefined, env |-> "postgresql://env/db"]

IsolationRequests ==
    { [name |-> "pg_analyze_database",
       args |-> Arguments("postgresql://arg/db", "performance", Undefined,
                          Undefined, Undefined, Undefined, Undefined, Undefined)],
      [name |-> "pg_manage_functions",
       args |-> Arguments("postgresql://arg/db", Undefined, "create", "f",
                          "TEXT", "SELECT 1", "", Undefined)],
      [name |-> "pg_manage_functions",
       args |-> Arguments(Undefined, Undefined, "get", "f", Undefined,
                          Undefined, Undefined, Undefined)],
      [name |-> "pg_manage_rls",
       args |-> RLSArguments(Undefined, "get_policies", "t", Undefined,
                             Undefined, Undefined, Undefined, Undefined)] }

InitIsolation ==
    StartedWith(IsolationSetup, ConcurrentCallIds,
                CatalogDatabase({"postgresql://arg/db", "postgresql://env/db"}))

NextIsolation ==
    \/ \E c \in DOMAIN calls, request \in IsolationRequests :
          CallTool(c, request.name, request.args)
    \/ \E c \in DOMAIN calls : ConnectSucceeds(c)
    \/ \E c \in DOMAIN calls : ConnectFails(c)
    \/ \E c \in DOMAIN calls : QueryExecutes(c)
    \/ \E c \in DOMAIN calls : QueryFails(c)
    \/ \E c \in DOMAIN calls : Disconnect(c)

SpecIsolation == InitIsolation /\ [][NextIsolation]_vars

====
